---- MODULE Spec2Model ----
(***************************************************************************)
(* The code index of grok-cli: the in-memory map of indexed files          *)
(* (CodeIndexer.indexedFiles), its on-disk mirror (.grok-memory/codebase,  *)
(* one <relativePath>.grok content file per indexed path) and its manifest *)
(* (.grok-memory/codebase-index.json), with the operations that keep them  *)
(* in step: indexProject, addOrUpdateFile, removeFile, the FileWatcher     *)
(* event handlers, verifyIndex and repairIndex.                            *)
(*                                                                         *)
(* A relative path is the sequence of its segments ("src/a.ts" is          *)
(* <<"src", "a.ts">>), so a top-level entry of a directory is a path of    *)
(* length 1.  The project's own files are the environment: every           *)
(* operation reads them as inputs (what stat and readFile return at the    *)
(* time of the call).  Each operation runs to completion in one step; the  *)
(* directory .grok-memory itself always exists (the conversation manager   *)
(* creates it at start-up).                                                *)
(***************************************************************************)
EXTENDS Integers, Sequences, FiniteSets, TLC

\* Number of distinct revisions a project file goes through.
MaxRevision == 2

\* Number of indexProject calls in flight at once.
MaxScans == 2

\* Number of addOrUpdateFile and removeFile calls in flight at once.
MaxTasks == 2

\* Number of sendMessage calls in flight at once.
MaxCalls == 2

\* Number of chokidar watchers created in a run.
MaxSubscriptions == 3

\* Number of start() calls that may wait for loadGitignore at once.
MaxStartsPending == 2

----------------------------------------------------------------------------
(* Paths *)

PathA    == <<"a.ts">>
PathSrcA == <<"src", "a.ts">>
PathPng  == <<"b.png">>
PathUp   == <<"..", "a.ts">>
PathCtl  == <<"a\\x07.ts">>
PathRoot == <<"src", "..">>
PathAbs  == <<"", "etc", "a.ts">>

\* The files the project tree may hold.
ProjectPaths == {PathA, PathSrcA, PathPng}

\* path.extname of the last segment, for the names of this model.
extname(p) ==
  LET base == p[Len(p)]
  IN  CASE base = "a.ts"  -> ".ts"
        [] base = "b.png" -> ".png"
        [] OTHER          -> ""

\* languageExtensions[ext] || 'text'
getLanguageFromExtension(p) ==
  LET ext == extname(p)
  IN  CASE ext = ".ts" -> "typescript"
        [] ext = ".js" -> "javascript"
        [] OTHER       -> "text"

\* path.resolve / path.join normalisation of a path relative to the project
\* root: "" and "." segments are dropped, ".." pops a segment; escaped is
\* set when ".." climbs above the root.
RECURSIVE NormalizeFrom(_, _, _)
NormalizeFrom(p, acc, esc) ==
  IF p = <<>> THEN [segs |-> acc, escaped |-> esc]
  ELSE LET s == Head(p)
       IN  IF s = "" \/ s = "." THEN NormalizeFrom(Tail(p), acc, esc)
           ELSE IF s = ".."
             THEN IF acc = <<>>
                    THEN NormalizeFrom(Tail(p), acc, TRUE)
                    ELSE NormalizeFrom(Tail(p), SubSeq(acc, 1, Len(acc) - 1), esc)
             ELSE NormalizeFrom(Tail(p), Append(acc, s), esc)

Normalize(p) == NormalizeFrom(p, <<>>, FALSE)

\* isPathSafe(projectRoot, path.join(projectRoot, p)): the resolved target
\* is the root or lies under it.
isPathSafe(p) == ~Normalize(p).escaped

\* Segments that hold a control character or a NUL, and drive prefixes.
ControlSegments == {"a\\x07.ts"}
DriveSegments   == {"C:"}

\* validateFilePath: no "../" (a ".." segment followed by another segment),
\* no leading "/" (an empty first segment), no drive prefix, no control
\* character.
validateFilePath(p) ==
  /\ \A i \in 1..Len(p) : p[i] \notin ControlSegments
  /\ ~(\E i \in 1..(Len(p) - 1) : p[i] = "..")
  /\ ~(Len(p) > 0 /\ p[1] = "")
  /\ ~(Len(p) > 0 /\ p[1] \in DriveSegments)

----------------------------------------------------------------------------
(* Project files as the operations see them *)

MAX_FILE_SIZE == 10 * 1024 * 1024

\* A size check that excludes the limit itself.
isFileSizeValidExclusive(size) == size > 0 /\ size < MAX_FILE_SIZE

isFileSizeValid(size) == size > 0 /\ size <= MAX_FILE_SIZE

\* The content of a file: which text it is, whether it holds a NUL byte,
\* and its length in bytes.
TextContent(n) == [text |-> n, nul |-> FALSE, bytes |-> 50 + n]
NulContent     == [text |-> 0, nul |-> TRUE, bytes |-> 50]
HugeContent    == [text |-> 0, nul |-> FALSE, bytes |-> MAX_FILE_SIZE + 1]

\* What stat and readFile find at a path: nothing, or a file.
Absent      == [exists |-> FALSE, size |-> 0, mtime |-> 0, content |-> NulContent]
Revision(n) == [exists |-> TRUE, size |-> 50 + n, mtime |-> n, content |-> TextContent(n)]
BinaryFile  == [exists |-> TRUE, size |-> 50, mtime |-> 1, content |-> NulContent]
HugeFile    == [exists |-> TRUE, size |-> MAX_FILE_SIZE + 1, mtime |-> 1,
                content |-> HugeContent]

Revisions  == {Revision(n) : n \in 1..MaxRevision}
FileStates == {Absent, BinaryFile, HugeFile} \cup Revisions

\* Files at the limits of the two size checks: no bytes at all, one byte
\* more than the 1024 * 1024 of addOrUpdateFile, exactly MAX_FILE_SIZE.
EmptyFile ==
  [exists |-> TRUE, size |-> 0, mtime |-> 1,
   content |-> [text |-> 0, nul |-> FALSE, bytes |-> 0]]
LargeFile ==
  [exists |-> TRUE, size |-> 1024 * 1024 + 1, mtime |-> 1,
   content |-> [text |-> 0, nul |-> FALSE, bytes |-> 1024 * 1024 + 1]]
MaxFile ==
  [exists |-> TRUE, size |-> MAX_FILE_SIZE, mtime |-> 1,
   content |-> [text |-> 0, nul |-> FALSE, bytes |-> MAX_FILE_SIZE]]
LargeBinaryFile ==
  [exists |-> TRUE, size |-> 1024 * 1024 + 1, mtime |-> 1,
   content |-> [text |-> 0, nul |-> TRUE, bytes |-> 1024 * 1024 + 1]]

\* A file with one byte that is not valid UTF-8: readFile(path, 'utf-8')
\* decodes the byte as U+FFFD, which writeFile encodes as three bytes.
Latin1File ==
  [exists |-> TRUE, size |-> 60, mtime |-> 1,
   content |-> [text |-> 0, nul |-> FALSE, bytes |-> 62]]

SizeStates ==
  {Absent, Revision(1), EmptyFile, LargeFile, MaxFile, HugeFile,
   BinaryFile, LargeBinaryFile}

----------------------------------------------------------------------------
(* State *)

VARIABLES
  indexedFiles,   \* CodeIndexer.indexedFiles: relativePath -> CodeFile
  codebaseDir,    \* whether .grok-memory/codebase exists
  mirror,         \* the .grok content files under it: relativePath -> content
  manifest,       \* codebase-index.json: absent, or relativePath -> metadata
  lastCall,       \* the operation that returned last, its argument and outcome
  report,         \* what the last verifyIndex returned
  repairLog,      \* what the last repairIndex did
  input,          \* what the last call read and which of its steps failed,
                  \* kept by the specifications that observe it
  watcher,        \* FileWatcher.watcher: the subscription held, or NoWatcher
  isWatching,     \* FileWatcher.isWatching
  subscriptions,  \* every chokidar watcher created so far, and its state
  startsPending,  \* the calls of start() waiting for loadGitignore
  stopped,        \* stop() has returned and start() was not called since
  search,         \* the last searchCode call: its arguments and what it returned
  dropped,        \* the paths of the watcher events dropped on an I/O error
  scans,          \* the indexProject calls made so far, each with its position
  tasks,          \* the addOrUpdateFile and removeFile calls in flight
  outsideFiles,   \* the files of the project outside .grok-memory/codebase
  currentRequest, \* GrokAPI.currentRequest: the call whose AbortController
                  \* it holds, or NoRequest
  calls           \* the sendMessage calls in flight

disk == <<codebaseDir, mirror, manifest>>
persistent == <<indexedFiles, codebaseDir, mirror, manifest>>
watcherVars == <<watcher, isWatching, subscriptions, startsPending, stopped>>
apiVars == <<currentRequest, calls>>
otherVars == <<search, dropped, scans, tasks, outsideFiles, apiVars>>
vars == <<indexedFiles, codebaseDir, mirror, manifest, lastCall, report, repairLog,
          input, watcher, isWatching, subscriptions, startsPending, stopped,
          search, dropped, scans, tasks, outsideFiles, currentRequest, calls>>

EmptyMap == <<>>

NoManifest == [state |-> "absent", entries |-> EmptyMap]

\* Object.keys of the manifest as loadPersistedIndex sees it: none when the
\* file cannot be read ("No index file yet, start fresh").
ManifestKeys(man) == IF man.state = "ok" THEN DOMAIN man.entries ELSE {}

Call(op, path, outcome, count) ==
  [op |-> op, path |-> path, outcome |-> outcome, count |-> count]

NoReport ==
  [made |-> FALSE, valid |-> FALSE, issues |-> {},
   indexCount |-> 0, memoryCount |-> 0, diskCount |-> 0,
   missingFromDisk |-> {}, missingFromMemory |-> {}, orphanedFiles |-> {}]

\* Nothing observed of the last call's reads.
NoInput == [atStat |-> <<>>, atRead |-> <<>>, faults |-> <<>>, scanFault |-> "none"]

\* No searchCode call made.
NoSearch == [query |-> <<>>, options |-> <<>>, outcome |-> "none", results |-> <<>>]

\* this.watcher = null
NoWatcher == 0
NoRequest == 0

NoRepair ==
  [streak |-> 0, found |-> FALSE, divergentBefore |-> FALSE, missingBefore |-> {},
   removed |-> {}, saved |-> {}, changed |-> FALSE, finalValid |-> FALSE]

----------------------------------------------------------------------------
(* CodeIndexer: persistence helpers *)

\* The CodeFile built from a path, its stat and its content.
MakeCodeFile(p, stats, content) ==
  [relativePath |-> p, content |-> content,
   language |-> getLanguageFromExtension(p),
   size |-> stats.size, lastModified |-> stats.mtime]

\* const { content, ...metadata } = file
Metadata(file) ==
  [relativePath |-> file.relativePath, language |-> file.language,
   size |-> file.size, lastModified |-> file.lastModified]

\* indexedFiles.set(p, file)
MapSet(files, p, file) ==
  [k \in DOMAIN files \cup {p} |-> IF k = p THEN file ELSE files[k]]

\* indexedFiles.delete(p), and fs.unlink of a content file that may be absent
MapDelete(files, p) == [k \in DOMAIN files \ {p} |-> files[k]]

\* A saveFileToMemory that writes under the file's base name, dropping the
\* directories of the relative path.
saveFileToMemoryFlat(mir, p, file) == MapSet(mir, <<p[Len(p)]>>, file.content)

\* saveFileToMemory: mkdir -p of the content file's directory, then write.
saveFileToMemory(mir, p, file) == MapSet(mir, p, file.content)

\* saveIndex: the manifest is rewritten whole from the in-memory map.
saveIndex(files) ==
  [state |-> "ok", entries |-> [k \in DOMAIN files |-> Metadata(files[k])]]

\* clearPersistedFiles, the content files: fs.readdir(codebasePath) lists the
\* entries of the codebase directory itself, and those ending in .grok are
\* unlinked; content files in its subdirectories are not listed.
clearPersistedFiles(mir) ==
  [k \in {q \in DOMAIN mir : Len(q) > 1} |-> mir[k]]

\* A loadPersistedIndex that reads the content files of the top level of
\* the codebase directory only.
loadPersistedIndexTopLevel(man, mir) ==
  [k \in {q \in ManifestKeys(man) \cap DOMAIN mir : Len(q) = 1} |->
     [relativePath |-> man.entries[k].relativePath, content |-> mir[k],
      language |-> man.entries[k].language, size |-> man.entries[k].size,
      lastModified |-> man.entries[k].lastModified]]

\* loadPersistedIndex: every manifest key whose content file can be read.
loadPersistedIndex(man, mir) ==
  [k \in ManifestKeys(man) \cap DOMAIN mir |->
     [relativePath |-> man.entries[k].relativePath, content |-> mir[k],
      language |-> man.entries[k].language, size |-> man.entries[k].size,
      lastModified |-> man.entries[k].lastModified]]

----------------------------------------------------------------------------
(* CodeIndexer.indexProject *)

Patterns == {"**/*", "src/**/*"}

\* glob(patterns, {cwd: projectRoot, nodir: true, dot: true}); "../*"
\* matches the files of the directory above the project root.
GlobMatches(pattern, p) ==
  CASE pattern = "**/*"     -> p[1] # ".."
    [] pattern = "src/**/*" -> Len(p) > 1 /\ p[1] = "src"
    [] pattern = "../*"     -> Len(p) = 2 /\ p[1] = ".."
    [] OTHER                -> FALSE

\* ig.ignores(file) throws a RangeError for a path that is not relative to
\* the root: one that starts with "/", "./" or "../".
IgnoreThrows(p) == p[1] \in {"", ".", ".."}

\* ig.ignores(file) for the built-in defaultIgnorePatterns ('*.png', ...).
ScannerIgnores(p) == extname(p) = ".png"

\* A loop of indexProject that does not look for a NUL byte in the content.
ScanAcceptedAnyContent(pattern, atStat, atRead) ==
  {p \in DOMAIN atStat :
     /\ atStat[p].exists
     /\ GlobMatches(pattern, p)
     /\ ~ScannerIgnores(p)
     /\ isFileSizeValid(atStat[p].size)
     /\ atRead[p].exists}

\* The files the loop of indexProject accepts: matched by the pattern, not
\* ignored, of valid size at stat, readable and without a NUL byte.
ScanAccepted(pattern, atStat, atRead) ==
  {p \in DOMAIN atStat :
     /\ atStat[p].exists
     /\ GlobMatches(pattern, p)
     /\ ~ScannerIgnores(p)
     /\ isFileSizeValid(atStat[p].size)
     /\ atRead[p].exists
     /\ ~atRead[p].content.nul}

ScanFiles(pattern, atStat, atRead) ==
  [p \in ScanAccepted(pattern, atStat, atRead) |->
     MakeCodeFile(p, atStat[p], atRead[p].content)]

\* The content files after the scan: what clearPersistedFiles left, and one
\* per accepted file.
ScanMirror(mir, files) ==
  LET kept == clearPersistedFiles(mir)
  IN  [k \in DOMAIN kept \cup DOMAIN files |->
         IF k \in DOMAIN files THEN files[k].content ELSE kept[k]]

IndexProject(pattern, atStat, atRead) ==
  LET files == ScanFiles(pattern, atStat, atRead)
  IN  /\ indexedFiles' = files
      /\ codebaseDir' = TRUE
      /\ mirror' = ScanMirror(mirror, files)
      /\ manifest' = saveIndex(files)
      /\ lastCall' = Call("indexProject", <<>>, "done", Cardinality(DOMAIN files))
      /\ report' = NoReport
      /\ repairLog' = NoRepair

\* indexProject when I/O fails.  For single files: fs.stat, fs.readFile or
\* saveFileToMemory throws inside the loop's try block and the catch goes on
\* to the next file.  For the scan as a whole: ensureDirectories, glob or
\* the final saveIndex throws, outside any try block.
FileFaults == {"none", "stat", "read", "write"}
ScanFaults == {"none", "mkdir", "enumeration", "filter", "manifest"}

FaultAt(faults, p) == IF p \in DOMAIN faults THEN faults[p] ELSE "none"

\* The manifest file when it cannot be parsed.
UnreadableManifest == [state |-> "unreadable", entries |-> EmptyMap]

\* A loop of indexProject that ends at the first file whose processing
\* throws, when that file comes first.
ScanReachedUntilFault(pattern, atStat, atRead, faults) ==
  IF \E p \in DOMAIN faults : faults[p] # "none"
    THEN {}
    ELSE ScanAccepted(pattern, atStat, atRead)

\* The files for which the loop reaches indexedFiles.set: the accepted ones
\* whose stat and read did not throw.
ScanReached(pattern, atStat, atRead, faults) ==
  {p \in ScanAccepted(pattern, atStat, atRead) :
     FaultAt(faults, p) \notin {"stat", "read"}}

\* The files for which saveFileToMemory returns and indexedCount++ runs.
ScanWritten(pattern, atStat, atRead, faults) ==
  {p \in ScanReached(pattern, atStat, atRead, faults) : FaultAt(faults, p) # "write"}

IndexProjectFaulty(pattern, atStat, atRead, faults, scanFault, manifestLeft) ==
  LET reached == ScanReached(pattern, atStat, atRead, faults)
      written == ScanWritten(pattern, atStat, atRead, faults)
      files   == [p \in reached |-> MakeCodeFile(p, atStat[p], atRead[p].content)]
      saved   == [p \in written |-> files[p]]
  IN  /\ CASE scanFault = "mkdir" ->
               UNCHANGED persistent
            [] scanFault \in {"enumeration", "filter"} ->
               /\ indexedFiles' = EmptyMap
               /\ codebaseDir' = TRUE
               /\ mirror' = clearPersistedFiles(mirror)
               /\ manifest' = saveIndex(EmptyMap)
            [] scanFault = "manifest" ->
               /\ indexedFiles' = files
               /\ codebaseDir' = TRUE
               /\ mirror' = ScanMirror(mirror, saved)
               /\ manifest' = manifestLeft
            [] OTHER ->
               /\ indexedFiles' = files
               /\ codebaseDir' = TRUE
               /\ mirror' = ScanMirror(mirror, saved)
               /\ manifest' = saveIndex(files)
      /\ lastCall' = IF scanFault = "none"
                       THEN Call("indexProject", <<>>, "done", Cardinality(written))
                       ELSE Call("indexProject", <<>>, "failed", 0)
      /\ report' = NoReport
      /\ repairLog' = NoRepair

----------------------------------------------------------------------------
(* CodeIndexer.addOrUpdateFile and removeFile *)

\* Where addOrUpdateFile returns: the outcome of its checks, in order.
UpsertOutcome(p, atStat, atRead) ==
  IF ~validateFilePath(p) THEN "invalid path"
  ELSE IF ~isPathSafe(p) THEN "unsafe path"
  ELSE IF ~atStat.exists THEN "stat failed"
  ELSE IF atStat.size > 1024 * 1024 THEN "too large"
  ELSE IF ~atRead.exists THEN "read failed"
  ELSE IF atRead.content.nul THEN "binary"
  ELSE "indexed"

\* An addOrUpdateFile that updates the in-memory map before it looks for a
\* NUL byte in the content.
UpsertEffectSetFirst(p, atStat, atRead) ==
  LET outcome  == UpsertOutcome(p, atStat, atRead)
      codeFile == MakeCodeFile(p, atStat, atRead.content)
      files    == MapSet(indexedFiles, p, codeFile)
  IN  IF outcome = "indexed"
        THEN /\ indexedFiles' = files
             /\ codebaseDir' = TRUE
             /\ mirror' = saveFileToMemory(mirror, p, codeFile)
             /\ manifest' = saveIndex(files)
        ELSE IF outcome = "binary"
          THEN indexedFiles' = files /\ UNCHANGED disk
          ELSE UNCHANGED persistent

UpsertEffect(p, atStat, atRead) ==
  IF UpsertOutcome(p, atStat, atRead) = "indexed"
    THEN LET codeFile == MakeCodeFile(p, atStat, atRead.content)
             files    == MapSet(indexedFiles, p, codeFile)
         IN  /\ indexedFiles' = files
             /\ codebaseDir' = TRUE
             /\ mirror' = saveFileToMemory(mirror, p, codeFile)
             /\ manifest' = saveIndex(files)
    ELSE UNCHANGED persistent

AddOrUpdateFile(p, atStat, atRead) ==
  /\ UpsertEffect(p, atStat, atRead)
  /\ lastCall' = Call("addOrUpdateFile", p, UpsertOutcome(p, atStat, atRead), 0)
  /\ report' = NoReport
  /\ repairLog' = NoRepair

\* A removeFile that forgets to unlink the content file.
RemoveEffectKeepsContent(p) ==
  LET files == MapDelete(indexedFiles, p)
  IN  /\ indexedFiles' = files
      /\ manifest' = saveIndex(files)
      /\ UNCHANGED <<codebaseDir, mirror>>

RemoveEffect(p) ==
  LET files == MapDelete(indexedFiles, p)
  IN  /\ indexedFiles' = files
      /\ mirror' = MapDelete(mirror, p)
      /\ manifest' = saveIndex(files)
      /\ UNCHANGED codebaseDir

RemoveFile(p) ==
  /\ RemoveEffect(p)
  /\ lastCall' = Call("removeFile", p, "done", 0)
  /\ report' = NoReport
  /\ repairLog' = NoRepair

\* this.codebasePath, from the project root.
CodebasePath == <<".grok-memory", "codebase">>

\* path.join(this.codebasePath, relativePath + '.grok'), from the project
\* root.
ContentPath(p) ==
  Normalize(CodebasePath \o [p EXCEPT ![Len(p)] = @ \o ".grok"]).segs

\* removeFile with any argument: fs.unlink deletes the file at the joined
\* path, wherever that is.
RemoveFileAnywhere(p) ==
  /\ RemoveFile(p)
  /\ outsideFiles' = outsideFiles \ {ContentPath(p)}

----------------------------------------------------------------------------
(* FileWatcher event handlers *)

\* The `ignored` callback of chokidar.watch: the watcher's own patterns
\* (node_modules/**, .git/**, .grok-memory/**, dist/**, build/**, *.log,
\* *.lock, .DS_Store).  No event is emitted for an ignored path.
WatcherIgnores(p) ==
  \/ p[1] \in {"node_modules", ".git", ".grok-memory", "dist", "build"}
  \/ p[Len(p)] = ".DS_Store"
  \/ extname(p) \in {".log", ".lock"}

\* The checks handleFileAdd, handleFileChange and handleFileDelete make on
\* the event's path before anything else.
HandlerPathOk(p) == isPathSafe(p) /\ p # <<>> /\ validateFilePath(p)

\* handleFileAdd stats and reads the file itself (`seen`) before it calls
\* addOrUpdateFile, which stats and reads it again.
HandleAddOutcome(p, seen, atStat, atRead) ==
  IF ~HandlerPathOk(p) THEN "skipped path"
  ELSE IF ~seen.exists THEN "stat failed"
  ELSE IF seen.size > 1024 * 1024 THEN "too large"
  ELSE IF seen.content.nul THEN "binary"
  ELSE UpsertOutcome(p, atStat, atRead)

HandleFileAdd(p, seen, atStat, atRead) ==
  /\ ~WatcherIgnores(p)
  /\ IF HandleAddOutcome(p, seen, atStat, atRead) = "indexed"
       THEN UpsertEffect(p, atStat, atRead)
       ELSE UNCHANGED persistent
  /\ lastCall' = Call("handleFileAdd", p, HandleAddOutcome(p, seen, atStat, atRead), 0)
  /\ report' = NoReport
  /\ repairLog' = NoRepair

HandleFileChange(p, atStat, atRead) ==
  /\ ~WatcherIgnores(p)
  /\ IF HandlerPathOk(p) THEN UpsertEffect(p, atStat, atRead) ELSE UNCHANGED persistent
  /\ lastCall' = Call("handleFileChange", p,
                      IF HandlerPathOk(p) THEN UpsertOutcome(p, atStat, atRead)
                                          ELSE "skipped path", 0)
  /\ report' = NoReport
  /\ repairLog' = NoRepair

HandleFileDelete(p) ==
  /\ ~WatcherIgnores(p)
  /\ IF HandlerPathOk(p) THEN RemoveEffect(p) ELSE UNCHANGED persistent
  /\ lastCall' = Call("handleFileDelete", p,
                      IF HandlerPathOk(p) THEN "done" ELSE "skipped path", 0)
  /\ report' = NoReport
  /\ repairLog' = NoRepair

----------------------------------------------------------------------------
(* Start-up, and what happens to the persisted state outside the process *)

\* The process ends and a new one starts: getCodeIndexer constructs a
\* CodeIndexer with an empty map and calls initialize().
Restart ==
  /\ indexedFiles' = loadPersistedIndex(manifest, mirror)
  /\ UNCHANGED disk
  /\ lastCall' = Call("initialize", <<>>, "done", 0)
  /\ report' = NoReport
  /\ repairLog' = NoRepair
  /\ UNCHANGED <<input, watcherVars, otherVars>>

\* A content file is deleted behind the indexer's back.
ExternalDeleteMirror(k) ==
  /\ k \in DOMAIN mirror
  /\ mirror' = MapDelete(mirror, k)
  /\ UNCHANGED <<indexedFiles, codebaseDir, manifest>>
  /\ lastCall' = Call("external unlink", k, "done", 0)
  /\ report' = NoReport
  /\ repairLog' = NoRepair

\* The whole codebase directory is deleted, with every content file in it.
ExternalRemoveCodebaseDir ==
  /\ codebaseDir
  /\ codebaseDir' = FALSE
  /\ mirror' = EmptyMap
  /\ UNCHANGED <<indexedFiles, manifest>>
  /\ lastCall' = Call("external rmdir", <<>>, "done", 0)
  /\ report' = NoReport
  /\ repairLog' = NoRepair
  /\ UNCHANGED <<input, watcherVars, otherVars>>

\* Another process indexes the same project (the setup wizard constructs
\* its own CodeIndexer and calls indexProject): the disk changes as in
\* indexProject, this process's map does not.
OtherProcessScan(pattern, atStat, atRead) ==
  LET files == ScanFiles(pattern, atStat, atRead)
  IN  /\ codebaseDir' = TRUE
      /\ mirror' = ScanMirror(mirror, files)
      /\ manifest' = saveIndex(files)
      /\ UNCHANGED indexedFiles
      /\ lastCall' = Call("external indexProject", <<>>, "done", 0)
      /\ report' = NoReport
      /\ repairLog' = NoRepair

----------------------------------------------------------------------------
(* CodeIndexer.verifyIndex and repairIndex *)

Issue(kind, key) == [kind |-> kind, key |-> key]

\* verifyIndex.  One try block reads the manifest, compares the key sets,
\* lists the codebase directory (fs.readdir: its own entries only), checks
\* every in-memory key for its content file and every listed .grok file for
\* its in-memory key; whatever throws ends the checks with one more issue.
verifyIndex(files, dir, mir, man) ==
  LET memory     == DOMAIN files
      parsed     == man.state = "ok"
      index      == ManifestKeys(man)
      listed     == parsed /\ dir
      grokFiles  == IF listed THEN {k \in DOMAIN mir : Len(k) = 1} ELSE {}
      notInMemory == IF parsed THEN index \ memory ELSE {}
      notInIndex  == IF parsed THEN memory \ index ELSE {}
      notOnDisk   == IF listed THEN memory \ DOMAIN mir ELSE {}
      orphaned    == grokFiles \ memory
      issues ==
        {Issue("in index but not in memory", k) : k \in notInMemory}
          \cup {Issue("in memory but not in index", k) : k \in notInIndex}
          \cup {Issue("in memory but not on disk", k) : k \in notOnDisk}
          \cup {Issue("orphaned file on disk", k) : k \in orphaned}
          \cup (IF listed THEN {} ELSE {Issue("failed to read index", <<>>)})
  IN  [made |-> TRUE, valid |-> issues = {}, issues |-> issues,
       indexCount |-> Cardinality(index), memoryCount |-> Cardinality(memory),
       diskCount |-> Cardinality(grokFiles),
       missingFromDisk |-> notOnDisk, missingFromMemory |-> notInMemory,
       orphanedFiles |-> orphaned]

\* A verifyIndex that unlinks the orphaned files it finds.
VerifyIndexUnlinking ==
  LET v == verifyIndex(indexedFiles, codebaseDir, mirror, manifest)
  IN  /\ report' = v
      /\ mirror' = [k \in DOMAIN mirror \ v.orphanedFiles |-> mirror[k]]
      /\ UNCHANGED <<indexedFiles, codebaseDir, manifest>>
      /\ lastCall' = Call("verifyIndex", <<>>, "done", 0)
      /\ repairLog' = NoRepair
      /\ UNCHANGED <<input, watcherVars, otherVars>>

VerifyIndex ==
  /\ report' = verifyIndex(indexedFiles, codebaseDir, mirror, manifest)
  /\ UNCHANGED persistent
  /\ lastCall' = Call("verifyIndex", <<>>, "done", 0)
  /\ repairLog' = NoRepair
  /\ UNCHANGED <<input, watcherVars, otherVars>>

\* repairIndex, the content files: the reported orphans are unlinked, then
\* every in-memory file reported missing from disk is saved again.
repairMirror(files, mir, v) ==
  LET kept   == [k \in DOMAIN mir \ v.orphanedFiles |-> mir[k]]
      toSave == DOMAIN files \cap v.missingFromDisk
  IN  [k \in DOMAIN kept \cup toSave |->
         IF k \in toSave THEN files[k].content ELSE kept[k]]

\* A repairIndex that never rewrites the manifest.
repairManifestKept(files, man, v) == man

\* repairIndex, the manifest: saveIndex, unless verification found nothing.
repairManifest(files, man, v) == IF v.valid THEN man ELSE saveIndex(files)

\* Ground truth of the four divergence classes, the manifest reading as
\* empty when there is none.
InManifestNotMemory == ManifestKeys(manifest) \ DOMAIN indexedFiles
InMemoryNotManifest == DOMAIN indexedFiles \ ManifestKeys(manifest)
MissingFromDisk     == DOMAIN indexedFiles \ DOMAIN mirror
Orphaned            == DOMAIN mirror \ DOMAIN indexedFiles
Divergent ==
  \/ InManifestNotMemory # {}
  \/ InMemoryNotManifest # {}
  \/ MissingFromDisk # {}
  \/ Orphaned # {}

RepairIndex ==
  LET v      == verifyIndex(indexedFiles, codebaseDir, mirror, manifest)
      mir2   == IF v.valid THEN mirror ELSE repairMirror(indexedFiles, mirror, v)
      saved  == IF v.valid THEN {} ELSE DOMAIN indexedFiles \cap v.missingFromDisk
      dir2   == codebaseDir \/ saved # {}
      man2   == repairManifest(indexedFiles, manifest, v)
      final  == verifyIndex(indexedFiles, dir2, mir2, man2)
  IN  /\ UNCHANGED indexedFiles
      /\ codebaseDir' = dir2
      /\ mirror' = mir2
      /\ manifest' = man2
      /\ lastCall' = Call("repairIndex", <<>>, "done", 0)
      /\ report' = NoReport
      /\ repairLog' =
           [streak |-> IF repairLog.streak = 0 THEN 1 ELSE 2,
            found |-> ~v.valid,
            divergentBefore |-> IF repairLog.streak = 0 THEN Divergent
                                ELSE repairLog.divergentBefore,
            missingBefore |-> MissingFromDisk,
            removed |-> IF v.valid THEN {} ELSE v.orphanedFiles,
            saved |-> saved,
            changed |-> <<dir2, mir2, man2>> # disk,
            finalValid |-> final.valid]
      /\ UNCHANGED <<input, watcherVars, otherVars>>

----------------------------------------------------------------------------
(* CodeIndexer.searchCode *)

\* A string is the sequence of its characters.
Quantifiers == {"+", "*"}
Digits == {"0", "1", "2", "3", "4", "5", "6", "7", "8", "9"}
WordChars == {"a", "b", "f", "o", "r", "x", "F", "O", "_"} \cup Digits

\* The characters that searchCode escapes in a literal query.
SpecialChars ==
  {".", "*", "+", "?", "^", "$", "{", "}", "(", ")", "|", "[", "]", "\\"}

toLowerCase(c) ==
  CASE c = "F" -> "f"
    [] c = "O" -> "o"
    [] OTHER   -> c

\* p[i..] is "{", three or more digits, "}".
LargeCountAt(p, i) ==
  /\ i <= Len(p)
  /\ p[i] = "{"
  /\ \E j \in (i + 4)..Len(p) :
       p[j] = "}" /\ \A k \in (i + 1)..(j - 1) : p[k] \in Digits

\* An opening character, characters other than the closing one, the closing
\* character at j.
GroupEndsAt(p, open, close, j) ==
  /\ p[j] = close
  /\ \E i \in 1..(j - 1) :
       p[i] = open /\ \A k \in (i + 1)..(j - 1) : p[k] # close

\* isRegexSafe: none of the four dangerous patterns is found in p: two
\* quantifiers in a row; a group followed by a count of three or more
\* digits; a group that ends in "+" and is followed by a quantifier; a
\* character class followed by a count of three or more digits.
isRegexSafe(p) ==
  /\ ~(\E i \in 1..(Len(p) - 1) : p[i] \in Quantifiers /\ p[i + 1] \in Quantifiers)
  /\ ~(\E j \in 1..Len(p) : GroupEndsAt(p, "(", ")", j) /\ LargeCountAt(p, j + 1))
  /\ ~(\E j \in 3..(Len(p) - 1) :
         /\ p[j] = ")"
         /\ p[j - 1] = "+"
         /\ p[j + 1] \in Quantifiers
         /\ \E i \in 1..(j - 2) :
              p[i] = "(" /\ \A k \in (i + 1)..(j - 2) : p[k] # ")")
  /\ ~(\E j \in 1..Len(p) : GroupEndsAt(p, "[", "]", j) /\ LargeCountAt(p, j + 1))

\* query.replace(specials, '\\$&'): a backslash before every special
\* character.
RECURSIVE escapeQuery(_)
escapeQuery(q) ==
  IF q = <<>> THEN <<>>
  ELSE IF Head(q) \in SpecialChars
    THEN <<"\\", Head(q)>> \o escapeQuery(Tail(q))
    ELSE <<Head(q)>> \o escapeQuery(Tail(q))

\* new RegExp(pattern) throws a SyntaxError when a quantifier has nothing
\* to repeat.
RegExpThrows(p) ==
  \E i \in 1..Len(p) :
    /\ p[i] \in Quantifiers
    /\ (i = 1 \/ p[i - 1] \in Quantifiers \cup {"("})
    /\ ~(i > 1 /\ p[i - 1] = "\\")

\* new RegExp(pattern), for the patterns without quantifiers, groups and
\* classes: a sequence of atoms, each an escaped or plain character, "."
\* or the word boundary \b.  Any other construct is an atom this model
\* cannot match.
RECURSIVE RegExpAtoms(_)
RegExpAtoms(p) ==
  IF p = <<>> THEN <<>>
  ELSE IF Head(p) = "\\" /\ Len(p) > 1
    THEN (IF p[2] = "b"
            THEN <<[kind |-> "boundary", char |-> ""]>>
            ELSE <<[kind |-> "char", char |-> p[2]]>>)
         \o RegExpAtoms(SubSeq(p, 3, Len(p)))
    ELSE (IF Head(p) = "."
            THEN <<[kind |-> "any", char |-> ""]>>
            ELSE IF Head(p) \in SpecialChars
              THEN <<[kind |-> "unsupported", char |-> Head(p)]>>
              ELSE <<[kind |-> "char", char |-> Head(p)]>>)
         \o RegExpAtoms(Tail(p))

\* \b at offset i of the line (0-based): a word character on exactly one
\* side.
WordBoundaryAt(line, i) ==
  (i > 0 /\ line[i] \in WordChars) # (i < Len(line) /\ line[i + 1] \in WordChars)

\* The offset at which a match of the atoms that starts at offset i ends,
\* or -1 when there is none.
RECURSIVE MatchEnd(_, _, _, _)
MatchEnd(line, atoms, i, ignoreCase) ==
  IF atoms = <<>> THEN i
  ELSE LET atom == Head(atoms)
       IN  CASE atom.kind = "boundary" ->
                  IF WordBoundaryAt(line, i)
                    THEN MatchEnd(line, Tail(atoms), i, ignoreCase)
                    ELSE -1
             [] atom.kind = "any" ->
                  IF i < Len(line)
                    THEN MatchEnd(line, Tail(atoms), i + 1, ignoreCase)
                    ELSE -1
             [] atom.kind = "char" ->
                  IF /\ i < Len(line)
                     /\ IF ignoreCase
                          THEN toLowerCase(line[i + 1]) = toLowerCase(atom.char)
                          ELSE line[i + 1] = atom.char
                    THEN MatchEnd(line, Tail(atoms), i + 1, ignoreCase)
                    ELSE -1
             [] OTHER -> -1

\* Array.from(line.matchAll(searchRegex)): the matches from left to right,
\* each search starting where the last match ended, one character further
\* after an empty match.
RECURSIVE matchAll(_, _, _, _)
matchAll(line, atoms, from, ignoreCase) ==
  IF from > Len(line) THEN <<>>
  ELSE LET end == MatchEnd(line, atoms, from, ignoreCase)
       IN  IF end = -1
             THEN matchAll(line, atoms, from + 1, ignoreCase)
             ELSE <<[index |-> from, length |-> end - from]>>
                  \o matchAll(line, atoms, IF end = from THEN from + 1 ELSE end,
                              ignoreCase)

\* content.split('\n')
RECURSIVE splitLines(_, _)
splitLines(chars, line) ==
  IF chars = <<>> THEN <<line>>
  ELSE IF Head(chars) = "\n"
    THEN <<line>> \o splitLines(Tail(chars), <<>>)
    ELSE splitLines(Tail(chars), Append(line, Head(chars)))

\* line.trim()
RECURSIVE trim(_)
trim(line) ==
  IF line = <<>> THEN line
  ELSE IF Head(line) = " " THEN trim(Tail(line))
  ELSE IF line[Len(line)] = " " THEN trim(SubSeq(line, 1, Len(line) - 1))
  ELSE line

\* maxResults = 50 when the option is not given; an option that may be
\* left out is the set of its values, empty or one.
DefaultMaxResults == 50

maxResultsOf(options) ==
  IF options.maxResults = {} THEN DefaultMaxResults
  ELSE CHOOSE n \in options.maxResults : TRUE

\* filePath.includes(filePattern), for the names of this model.
PathIncludes(p, filePattern) == \E i \in 1..Len(p) : p[i] = filePattern

\* A loop over the lines that numbers them from 0.
RECURSIVE fileMatchesFromZero(_, _, _, _)
fileMatchesFromZero(lines, index, atoms, ignoreCase) ==
  IF index > Len(lines) THEN <<>>
  ELSE LET line  == lines[index]
           found == matchAll(line, atoms, 0, ignoreCase)
       IN  [m \in 1..Len(found) |->
              [line |-> index - 1, content |-> trim(line),
               startIndex |-> found[m].index,
               endIndex |-> found[m].index + found[m].length]]
           \o fileMatchesFromZero(lines, index + 1, atoms, ignoreCase)

\* The matches of one file: for every line in turn, every match in it.
RECURSIVE fileMatches(_, _, _, _)
fileMatches(lines, index, atoms, ignoreCase) ==
  IF index > Len(lines) THEN <<>>
  ELSE LET line  == lines[index]
           found == matchAll(line, atoms, 0, ignoreCase)
       IN  [m \in 1..Len(found) |->
              [line |-> index, content |-> trim(line),
               startIndex |-> found[m].index,
               endIndex |-> found[m].index + found[m].length]]
           \o fileMatches(lines, index + 1, atoms, ignoreCase)

\* The loop over the map, in the order of its keys: a file that passes the
\* filters and has a match is pushed, then the length of the results is
\* compared with maxResults.
RECURSIVE collectResults(_, _, _, _, _)
collectResults(files, order, atoms, options, results) ==
  IF order = <<>> THEN results
  ELSE LET k       == Head(order)
           matches == fileMatches(splitLines(files[k].content.text, <<>>), 1,
                                  atoms, ~options.caseSensitive)
       IN  IF \/ options.filePattern # "" /\ ~PathIncludes(k, options.filePattern)
              \/ options.language # "" /\ files[k].language # options.language
              \/ matches = <<>>
             THEN collectResults(files, Tail(order), atoms, options, results)
             ELSE LET pushed == Append(results, [file |-> k, matches |-> matches])
                  IN  IF Len(pushed) >= maxResultsOf(options)
                        THEN pushed
                        ELSE collectResults(files, Tail(order), atoms, options, pushed)

\* The pattern searchCode compiles: the query itself, or the escaped query,
\* between word boundaries when wholeWord is set.
searchPattern(query, options) ==
  IF options.regex THEN query
  ELSE IF options.wholeWord
    THEN <<"\\", "b">> \o escapeQuery(query) \o <<"\\", "b">>
    ELSE escapeQuery(query)

\* A searchCode that compiles every query without asking isRegexSafe.
searchCodeUnchecked(files, order, query, options) ==
  IF RegExpThrows(searchPattern(query, options))
    THEN [outcome |-> "invalid regex", results |-> <<>>]
    ELSE [outcome |-> "returned",
          results |-> collectResults(files, order,
                                     RegExpAtoms(searchPattern(query, options)),
                                     options, <<>>)]

\* searchCode: what it throws or returns.
searchCode(files, order, query, options) ==
  IF options.regex /\ ~isRegexSafe(query)
    THEN [outcome |-> "unsafe pattern", results |-> <<>>]
    ELSE IF RegExpThrows(searchPattern(query, options))
      THEN [outcome |-> "invalid regex", results |-> <<>>]
      ELSE [outcome |-> "returned",
            results |-> collectResults(files, order,
                                       RegExpAtoms(searchPattern(query, options)),
                                       options, <<>>)]

\* The orders in which a Map with these keys may be iterated.
KeyOrders(keys) ==
  {order \in [1..Cardinality(keys) -> keys] :
     \A i, j \in DOMAIN order : i # j => order[i] # order[j]}

SearchCode(query, options, order) ==
  \E r \in {searchCode(indexedFiles, order, query, options)} :
    /\ search' = [query |-> query, options |-> options,
                  outcome |-> r.outcome, results |-> r.results]
    /\ lastCall' = Call("searchCode", <<>>, r.outcome, Len(r.results))
    /\ report' = NoReport
    /\ repairLog' = NoRepair
    /\ UNCHANGED <<persistent, input, watcherVars, dropped, scans, tasks,
                       outsideFiles, apiVars>>

----------------------------------------------------------------------------
(* FileWatcher: start, stop and the callbacks of its subscriptions *)

\* A chokidar watcher is numbered by its order of creation.  It is
\* "scanning" until it emits 'ready', then "ready", and "closed" once
\* close() was called on it: close() removes its listeners, so a closed
\* watcher calls nothing back.
OpenSubscriptions == {i \in DOMAIN subscriptions : subscriptions[i] # "closed"}

isActive == isWatching

\* start(), up to its first await: it returns when isWatching is set, and
\* otherwise waits for loadGitignore to read .gitignore.
StartCall ==
  /\ IF isWatching
       THEN /\ UNCHANGED startsPending
            /\ lastCall' = Call("start", <<>>, "already watching", 0)
       ELSE /\ startsPending < MaxStartsPending
            /\ startsPending' = startsPending + 1
            /\ lastCall' = Call("start", <<>>, "loading .gitignore", 0)
  /\ stopped' = FALSE
  /\ UNCHANGED <<watcher, isWatching, subscriptions>>
  /\ UNCHANGED <<persistent, report, repairLog, input, otherVars>>

\* start(), after loadGitignore: chokidar.watch creates a watcher, which is
\* assigned to this.watcher, and the handlers are registered on it.
StartResume ==
  /\ startsPending > 0
  /\ Len(subscriptions) < MaxSubscriptions
  /\ startsPending' = startsPending - 1
  /\ subscriptions' = Append(subscriptions, "scanning")
  /\ watcher' = Len(subscriptions) + 1
  /\ lastCall' = Call("start", <<>>, "subscribed", Len(subscriptions) + 1)
  /\ UNCHANGED <<isWatching, stopped>>
  /\ UNCHANGED <<persistent, report, repairLog, input, otherVars>>

\* The 'ready' handler registered on watcher i.
OnReady(i) ==
  /\ subscriptions[i] = "scanning"
  /\ subscriptions' = [subscriptions EXCEPT ![i] = "ready"]
  /\ isWatching' = TRUE
  /\ lastCall' = Call("ready event", <<>>, "done", i)
  /\ UNCHANGED <<watcher, startsPending, stopped>>
  /\ UNCHANGED <<persistent, report, repairLog, input, otherVars>>

\* The 'error' handler registered on watcher i: console.error.
OnError(i) ==
  /\ i \in OpenSubscriptions
  /\ lastCall' = Call("error event", <<>>, "reported", i)
  /\ UNCHANGED watcherVars
  /\ UNCHANGED <<persistent, report, repairLog, input, otherVars>>

\* stop()
Stop ==
  /\ IF watcher # NoWatcher
       THEN /\ subscriptions' = [subscriptions EXCEPT ![watcher] = "closed"]
            /\ watcher' = NoWatcher
            /\ isWatching' = FALSE
       ELSE UNCHANGED <<subscriptions, watcher, isWatching>>
  /\ stopped' = TRUE
  /\ lastCall' = Call("stop", <<>>, "done", 0)
  /\ UNCHANGED startsPending
  /\ UNCHANGED <<persistent, report, repairLog, input, otherVars>>

----------------------------------------------------------------------------
(* FileWatcher: the add, change and unlink callbacks, with I/O errors *)

\* What a call read: the files as stat and as readFile found them, the
\* I/O errors met while processing single files, and the one met by a step
\* of the scan as a whole.
Reads(atStat, atRead, faults, scanFault) ==
  [atStat |-> atStat, atRead |-> atRead, faults |-> faults, scanFault |-> scanFault]

\* The one file an upsert of path p looks at.
OneFile(p, f) == [q \in {p} |-> f]

\* The I/O call of a handler that throws, if any.
UpsertFaults == {"none", "stat", "read", "write", "manifest"}
RemoveFaults == {"none", "unlink", "manifest"}

\* Where addOrUpdateFile ends when one of its I/O calls throws.
UpsertOutcomeFaulty(p, atStat, atRead, fault) ==
  IF ~validateFilePath(p) THEN "invalid path"
  ELSE IF ~isPathSafe(p) THEN "unsafe path"
  ELSE IF ~atStat.exists \/ fault = "stat" THEN "stat failed"
  ELSE IF atStat.size > 1024 * 1024 THEN "too large"
  ELSE IF ~atRead.exists \/ fault = "read" THEN "read failed"
  ELSE IF atRead.content.nul THEN "binary"
  ELSE IF fault = "write" THEN "write failed"
  ELSE IF fault = "manifest" THEN "manifest failed"
  ELSE "indexed"

\* addOrUpdateFile sets the in-memory record, then writes the content file,
\* then the manifest; its catch ends the call at the write that throws.
UpsertEffectFaulty(p, atStat, atRead, fault, manifestLeft) ==
  LET outcome  == UpsertOutcomeFaulty(p, atStat, atRead, fault)
      codeFile == MakeCodeFile(p, atStat, atRead.content)
      files    == MapSet(indexedFiles, p, codeFile)
  IN  CASE outcome = "indexed" ->
             /\ indexedFiles' = files
             /\ codebaseDir' = TRUE
             /\ mirror' = saveFileToMemory(mirror, p, codeFile)
             /\ manifest' = saveIndex(files)
        [] outcome = "manifest failed" ->
             /\ indexedFiles' = files
             /\ codebaseDir' = TRUE
             /\ mirror' = saveFileToMemory(mirror, p, codeFile)
             /\ manifest' = manifestLeft
        [] outcome = "write failed" ->
             /\ indexedFiles' = files
             /\ UNCHANGED disk
        [] OTHER -> UNCHANGED persistent

\* removeFile swallows a failed unlink; a saveIndex that throws ends it.
RemoveEffectFaulty(p, fault, manifestLeft) ==
  LET files == MapDelete(indexedFiles, p)
  IN  /\ indexedFiles' = files
      /\ mirror' = IF fault = "unlink" THEN mirror ELSE MapDelete(mirror, p)
      /\ manifest' = IF fault = "manifest" THEN manifestLeft ELSE saveIndex(files)
      /\ UNCHANGED codebaseDir

\* The outcomes of a handler whose event was dropped for an I/O error.
DroppedOutcomes == {"stat failed", "read failed", "write failed", "manifest failed"}

\* An empty catch block that closes the watcher of the handler.
CatchClosing(i, outcome) ==
  IF outcome \in DroppedOutcomes
    THEN /\ subscriptions' = [subscriptions EXCEPT ![i] = "closed"]
         /\ watcher' = IF watcher = i THEN NoWatcher ELSE watcher
         /\ isWatching' = FALSE
         /\ UNCHANGED <<startsPending, stopped>>
    ELSE UNCHANGED watcherVars

\* The catch block of handleFileAdd, handleFileChange and handleFileDelete:
\* empty.
Catch(i, outcome) == UNCHANGED watcherVars

\* What is left of a handler once its path checks have passed.
HandlerDone(i, op, p, outcome) ==
  /\ Catch(i, outcome)
  /\ dropped' = IF outcome \in DroppedOutcomes THEN dropped \cup {p} ELSE dropped
  /\ lastCall' = Call(op, p, outcome, 0)
  /\ report' = NoReport
  /\ repairLog' = NoRepair
  /\ UNCHANGED <<search, scans, tasks, outsideFiles, apiVars>>

\* The 'add' handler registered on watcher i: handleFileAdd stats and reads
\* the file, then calls addOrUpdateFile.
OnAdd(i, p, f, fault, manifestLeft) ==
  LET outcome == IF ~HandlerPathOk(p) THEN "skipped path"
                 ELSE UpsertOutcomeFaulty(p, f, f, fault)
  IN  /\ subscriptions[i] = "ready"
      /\ ~WatcherIgnores(p)
      /\ IF HandlerPathOk(p)
           THEN UpsertEffectFaulty(p, f, f, fault, manifestLeft)
           ELSE UNCHANGED persistent
      /\ input' = Reads(OneFile(p, f), OneFile(p, f), OneFile(p, fault), "none")
      /\ HandlerDone(i, "handleFileAdd", p, outcome)

\* The 'change' handler registered on watcher i.
OnChange(i, p, f, fault, manifestLeft) ==
  LET outcome == IF ~HandlerPathOk(p) THEN "skipped path"
                 ELSE UpsertOutcomeFaulty(p, f, f, fault)
  IN  /\ subscriptions[i] = "ready"
      /\ ~WatcherIgnores(p)
      /\ IF HandlerPathOk(p)
           THEN UpsertEffectFaulty(p, f, f, fault, manifestLeft)
           ELSE UNCHANGED persistent
      /\ input' = Reads(OneFile(p, f), OneFile(p, f), OneFile(p, fault), "none")
      /\ HandlerDone(i, "handleFileChange", p, outcome)

\* The 'unlink' handler registered on watcher i.
OnUnlink(i, p, fault, manifestLeft) ==
  LET outcome == IF ~HandlerPathOk(p) THEN "skipped path"
                 ELSE IF fault = "manifest" THEN "manifest failed"
                 ELSE "done"
  IN  /\ subscriptions[i] = "ready"
      /\ ~WatcherIgnores(p)
      /\ IF HandlerPathOk(p)
           THEN RemoveEffectFaulty(p, fault, manifestLeft)
           ELSE UNCHANGED persistent
      /\ input' = Reads(OneFile(p, Absent), OneFile(p, Absent), OneFile(p, fault), "none")
      /\ HandlerDone(i, "handleFileDelete", p, outcome)

----------------------------------------------------------------------------
(* CodeIndexer.indexProject, from one await to the next *)

\* An indexProject call in flight: where it is, the files its loop has
\* still to process, indexedCount, and the document saveIndex is writing.
ScanRecord(pc, todo, count, index) ==
  [pc |-> pc, todo |-> todo, count |-> count, index |-> index]

\* The calls in flight without call i.
Returned(i) ==
  [j \in 1..(Len(scans) - 1) |-> IF j < i THEN scans[j] ELSE scans[j + 1]]

\* indexProject is called: console.log, then the await of ensureDirectories.
\* Nothing keeps a call from starting while another is in flight.
ScanCall ==
  /\ Len(scans) < MaxScans
  /\ scans' = Append(scans, ScanRecord("clear", {}, 0, NoManifest))
  /\ codebaseDir' = TRUE
  /\ UNCHANGED <<indexedFiles, mirror, manifest>>
  /\ lastCall' = Call("indexProject", <<>>, "called", 0)
  /\ report' = NoReport
  /\ repairLog' = NoRepair
  /\ UNCHANGED <<input, watcherVars, search, dropped, tasks, outsideFiles, apiVars>>

\* indexedFiles.clear(), clearPersistedFiles, which ends with the write of
\* '{}', and the glob and the filter, which give the files to process.
ScanClear(i, found) ==
  /\ scans[i].pc = "clear"
  /\ indexedFiles' = EmptyMap
  /\ mirror' = clearPersistedFiles(mirror)
  /\ manifest' = saveIndex(EmptyMap)
  /\ UNCHANGED codebaseDir
  /\ scans' = [scans EXCEPT ![i] = ScanRecord("files", found, 0, NoManifest)]
  /\ lastCall' = Call("indexProject", <<>>, "cleared", 0)
  /\ report' = NoReport
  /\ repairLog' = NoRepair
  /\ UNCHANGED <<input, watcherVars, search, dropped, tasks, outsideFiles, apiVars>>

\* One turn of the loop, for a text file within the size limit: stat,
\* readFile, indexedFiles.set, saveFileToMemory, indexedCount++.
ScanFile(i, p, f) ==
  LET codeFile == MakeCodeFile(p, f, f.content)
  IN  /\ scans[i].pc = "files"
      /\ p \in scans[i].todo
      /\ indexedFiles' = MapSet(indexedFiles, p, codeFile)
      /\ mirror' = saveFileToMemory(mirror, p, codeFile)
      /\ UNCHANGED <<codebaseDir, manifest>>
      /\ scans' = [scans EXCEPT ![i] =
                     ScanRecord("files", scans[i].todo \ {p}, scans[i].count + 1,
                                NoManifest)]
      /\ lastCall' = Call("indexProject", p, "file indexed", 0)
      /\ report' = NoReport
      /\ repairLog' = NoRepair
      /\ UNCHANGED <<input, watcherVars, search, dropped, tasks, outsideFiles, apiVars>>

\* saveIndex after the loop: the document is built from the in-memory map
\* and fs.writeFile opens codebase-index.json, which truncates it.
ScanSaveOpen(i) ==
  /\ scans[i].pc = "files"
  /\ scans[i].todo = {}
  /\ manifest' = UnreadableManifest
  /\ UNCHANGED <<indexedFiles, codebaseDir, mirror>>
  /\ scans' = [scans EXCEPT ![i] =
                 ScanRecord("write", {}, scans[i].count, saveIndex(indexedFiles))]
  /\ lastCall' = Call("indexProject", <<>>, "manifest opened", 0)
  /\ report' = NoReport
  /\ repairLog' = NoRepair
  /\ UNCHANGED <<input, watcherVars, search, dropped, tasks, outsideFiles, apiVars>>

\* fs.writeFile writes the document and indexProject returns indexedCount.
ScanSaveWrite(i) ==
  /\ scans[i].pc = "write"
  /\ manifest' = scans[i].index
  /\ UNCHANGED <<indexedFiles, codebaseDir, mirror>>
  /\ scans' = Returned(i)
  /\ lastCall' = Call("indexProject", <<>>, "done", scans[i].count)
  /\ report' = NoReport
  /\ repairLog' = NoRepair
  /\ UNCHANGED <<input, watcherVars, search, dropped, tasks, outsideFiles, apiVars>>

\* The process is killed and started again: the calls in flight are gone
\* and initialize() loads what the disk holds.
CrashAndRestart ==
  /\ scans' = <<>>
  /\ indexedFiles' = loadPersistedIndex(manifest, mirror)
  /\ UNCHANGED disk
  /\ lastCall' = Call("initialize", <<>>, "done", 0)
  /\ report' = NoReport
  /\ repairLog' = NoRepair
  /\ UNCHANGED <<input, watcherVars, search, dropped, tasks, outsideFiles, apiVars>>

----------------------------------------------------------------------------
(* addOrUpdateFile and removeFile, from one await to the next *)

\* A call in flight: the operation, its path, where it is, the record it
\* has built, the document its saveIndex is writing, and whether a
\* removeFile of the same path was called ("removing") and has returned
\* ("overtaken") while the call was waiting for its stat and readFile.
Task(op, path, pc, file, index, mark) ==
  [op |-> op, path |-> path, pc |-> pc, file |-> file, index |-> index,
   mark |-> mark]

\* The calls in flight without call i.
Finished(ts, i) ==
  [j \in 1..(Len(ts) - 1) |-> IF j < i THEN ts[j] ELSE ts[j + 1]]

TaskFrame ==
  /\ report' = NoReport
  /\ repairLog' = NoRepair
  /\ UNCHANGED <<input, watcherVars, search, dropped, scans, outsideFiles, apiVars>>

\* addOrUpdateFile(p) is called with a valid path and awaits fs.stat.
UpsertCall(p) ==
  /\ Len(tasks) < MaxTasks
  /\ validateFilePath(p) /\ isPathSafe(p)
  /\ tasks' = Append(tasks, Task("addOrUpdateFile", p, "reading", Absent,
                                  NoManifest, "none"))
  /\ UNCHANGED persistent
  /\ lastCall' = Call("addOrUpdateFile", p, "called", 0)
  /\ TaskFrame

\* stat and readFile have returned a text file within the size limit:
\* indexedFiles.set, then the await of saveFileToMemory.
UpsertRead(i, f) ==
  LET p == tasks[i].path
      codeFile == MakeCodeFile(p, f, f.content)
  IN  /\ tasks[i].op = "addOrUpdateFile"
      /\ tasks[i].pc = "reading"
      /\ indexedFiles' = MapSet(indexedFiles, p, codeFile)
      /\ UNCHANGED disk
      /\ tasks' = [tasks EXCEPT ![i].pc = "saving", ![i].file = codeFile]
      /\ lastCall' = Call("addOrUpdateFile", p, "record set", 0)
      /\ TaskFrame

\* The content file is written; saveIndex builds its document from the
\* in-memory map and fs.writeFile opens codebase-index.json.
UpsertSaved(i) ==
  LET p == tasks[i].path
  IN  /\ tasks[i].op = "addOrUpdateFile"
      /\ tasks[i].pc = "saving"
      /\ mirror' = saveFileToMemory(mirror, p, tasks[i].file)
      /\ codebaseDir' = TRUE
      /\ manifest' = UnreadableManifest
      /\ UNCHANGED indexedFiles
      /\ tasks' = [tasks EXCEPT ![i].pc = "writing",
                                ![i].index = saveIndex(indexedFiles)]
      /\ lastCall' = Call("addOrUpdateFile", p, "manifest opened", 0)
      /\ TaskFrame

\* removeFile(p) is called: indexedFiles.delete, then the await of
\* fs.unlink.
RemoveCall(p) ==
  /\ Len(tasks) < MaxTasks
  /\ indexedFiles' = MapDelete(indexedFiles, p)
  /\ UNCHANGED disk
  /\ tasks' = Append([j \in DOMAIN tasks |->
                        IF /\ tasks[j].op = "addOrUpdateFile"
                           /\ tasks[j].path = p
                           /\ tasks[j].pc = "reading"
                          THEN [tasks[j] EXCEPT !.mark = "removing"]
                          ELSE tasks[j]],
                     Task("removeFile", p, "unlinking", Absent, NoManifest, "none"))
  /\ lastCall' = Call("removeFile", p, "called", 0)
  /\ TaskFrame

\* The content file is unlinked; saveIndex builds its document and
\* fs.writeFile opens codebase-index.json.
RemoveUnlinked(i) ==
  /\ tasks[i].op = "removeFile"
  /\ tasks[i].pc = "unlinking"
  /\ mirror' = MapDelete(mirror, tasks[i].path)
  /\ manifest' = UnreadableManifest
  /\ UNCHANGED <<indexedFiles, codebaseDir>>
  /\ tasks' = [tasks EXCEPT ![i].pc = "writing",
                            ![i].index = saveIndex(indexedFiles)]
  /\ lastCall' = Call("removeFile", tasks[i].path, "manifest opened", 0)
  /\ TaskFrame

\* fs.writeFile writes the document of call i, and the call returns.
TaskWrite(i) ==
  LET t == tasks[i]
      rest == Finished(tasks, i)
  IN  /\ t.pc = "writing"
      /\ manifest' = t.index
      /\ UNCHANGED <<indexedFiles, codebaseDir, mirror>>
      /\ tasks' = [j \in DOMAIN rest |->
                     IF /\ t.op = "removeFile"
                        /\ rest[j].op = "addOrUpdateFile"
                        /\ rest[j].path = t.path
                        /\ rest[j].pc = "reading"
                        /\ rest[j].mark = "removing"
                       THEN [rest[j] EXCEPT !.mark = "overtaken"]
                       ELSE rest[j]]
      /\ lastCall' = Call(t.op, t.path,
                          IF t.mark = "overtaken" THEN "done after a remove"
                                                  ELSE "done", 0)
      /\ TaskFrame

----------------------------------------------------------------------------
(* CodeGenerator.createFile *)

\* Where createFile ends.  The error thrown for a file that exists is
\* thrown inside the try block whose catch swallows every error, so the
\* call goes on to write the file.
CreateFileOutcome(p, before) ==
  IF ~validateFilePath(p) THEN "Invalid file path"
  ELSE IF ~isPathSafe(p) THEN "Path traversal detected"
  ELSE "Created"

\* createFile(filePath, content): the file found at the path, and the file
\* that holds the content once it is written.
CreateFile(p, before, written) ==
  LET outcome == CreateFileOutcome(p, before)
      after   == IF outcome = "Created" THEN written ELSE before
  IN  /\ IF outcome = "Created"
           THEN UpsertEffect(p, written, written)
           ELSE UNCHANGED persistent
      /\ input' = Reads(OneFile(p, before), OneFile(p, after), <<>>, "none")
      /\ lastCall' = Call("createFile", p, outcome, 0)
      /\ report' = NoReport
      /\ repairLog' = NoRepair
      /\ UNCHANGED <<watcherVars, otherVars>>

----------------------------------------------------------------------------
(* The /index command *)

\* /index [pattern]: indexProject, then watcher.start() when the watcher is
\* not active and the scan counted at least one file.
IndexCommand(pattern, atStat, atRead) ==
  LET files == ScanFiles(pattern, atStat, atRead)
      count == Cardinality(DOMAIN files)
  IN  /\ indexedFiles' = files
      /\ codebaseDir' = TRUE
      /\ mirror' = ScanMirror(mirror, files)
      /\ manifest' = saveIndex(files)
      /\ IF ~isActive /\ count > 0
           THEN /\ startsPending < MaxStartsPending
                /\ startsPending' = startsPending + 1
                /\ stopped' = FALSE
                /\ UNCHANGED <<watcher, isWatching, subscriptions>>
           ELSE UNCHANGED watcherVars
      /\ lastCall' = Call("/index", <<>>, "done", count)
      /\ report' = NoReport
      /\ repairLog' = NoRepair
      /\ UNCHANGED <<input, otherVars>>

----------------------------------------------------------------------------
(* GrokAPI: sendMessage and cancelCurrentRequest *)

\* sendMessage(messages, retries = 3)
DefaultRetries == 3

\* String.includes, for messages kept as sequences of words.
Includes(message, word) == \E i \in DOMAIN message : message[i] = word

\* What fetch rejects with when the connection fails.
NetworkError(code) ==
  [name |-> "FetchError", message |-> <<"request", "failed,", "reason:", code>>]

\* What sendMessage throws on a response that is not ok: the status and
\* the text of the response body go into the message.
HttpError(status, body) ==
  [name |-> "Error", message |-> <<"Grok", "API", "error:", status, "-">> \o body]

\* What fetch rejects with when its signal is aborted.
AbortError ==
  [name |-> "AbortError", message |-> <<"The", "user", "aborted", "a", "request.">>]

\* The test of the catch block for a retry.
isRetried(error, retries) ==
  /\ Includes(error.message, "ETIMEDOUT") \/ Includes(error.message, "ECONNRESET")
  /\ retries > 0

\* The error sendMessage throws for an error it does not retry.
thrownMessage(error) ==
  IF error.name = "AbortError" THEN "Request timed out or was cancelled"
  ELSE IF Includes(error.message, "ETIMEDOUT") THEN "Network timeout"
  ELSE IF Includes(error.message, "ECONNREFUSED") THEN "Cannot connect to Grok API"
  ELSE IF Includes(error.message, "401") THEN "Invalid API key"
  ELSE "Failed to communicate with Grok"

\* A sendMessage call in flight: where it is, the retries left, the number
\* of the attempt, the state of the signal of its AbortController, and
\* whether cancelCurrentRequest() was called since it started.
ApiCall(pc, retries, attempts, signal, cancelled) ==
  [pc |-> pc, retries |-> retries, attempts |-> attempts, signal |-> signal,
   cancelled |-> cancelled]

\* this.currentRequest.abort()
Abort(cs, i) ==
  IF i = NoRequest THEN cs ELSE [cs EXCEPT ![i].signal = "aborted"]

\* The calls in flight without call i.
Settled(cs, i) ==
  [j \in 1..(Len(cs) - 1) |-> IF j < i THEN cs[j] ELSE cs[j + 1]]

ApiFrame ==
  /\ report' = NoReport
  /\ repairLog' = NoRepair
  /\ UNCHANGED <<persistent, input, watcherVars, search, dropped, scans, tasks,
                 outsideFiles>>

\* sendMessage is called: cancelCurrentRequest(), a new AbortController,
\* the 120 second timer, and fetch.
SendMessage ==
  /\ Len(calls) < MaxCalls
  /\ calls' = Append(Abort(calls, currentRequest),
                     ApiCall("fetching", DefaultRetries, 1, "live", FALSE))
  /\ currentRequest' = Len(calls) + 1
  /\ lastCall' = Call("sendMessage", <<>>, "request sent", 1)
  /\ ApiFrame

\* fetch rejects, or the response is not ok: the catch block retries after
\* a delay, or throws, and finally resets currentRequest.
AttemptFails(i, error) ==
  /\ calls[i].pc = "fetching"
  /\ calls[i].signal = "live"
  /\ IF isRetried(error, calls[i].retries)
       THEN /\ calls' = [calls EXCEPT ![i].pc = "delay", ![i].signal = "none"]
            /\ lastCall' = Call("attempt failed", error.message, "retrying",
                                calls[i].attempts)
       ELSE /\ calls' = Settled(calls, i)
            /\ lastCall' = Call("attempt failed", error.message,
                                thrownMessage(error), calls[i].attempts)
  /\ currentRequest' = NoRequest
  /\ ApiFrame

\* fetch rejects because the signal was aborted.
AttemptAborted(i) ==
  /\ calls[i].pc = "fetching"
  /\ calls[i].signal = "aborted"
  /\ ~isRetried(AbortError, calls[i].retries)
  /\ calls' = Settled(calls, i)
  /\ currentRequest' = NoRequest
  /\ lastCall' = Call("attempt aborted", AbortError.message,
                      thrownMessage(AbortError), calls[i].attempts)
  /\ ApiFrame

\* The response arrives and is ok: sendMessage returns its content.
AttemptSucceeds(i) ==
  /\ calls[i].pc = "fetching"
  /\ calls[i].signal = "live"
  /\ calls' = Settled(calls, i)
  /\ currentRequest' = NoRequest
  /\ lastCall' = Call("attempt succeeded", <<>>, "returned", calls[i].attempts)
  /\ ApiFrame

\* The 2 seconds are over: sendMessage(messages, retries - 1) is called and
\* suspends at ensureConfig, the finally block of the caller resets
\* currentRequest, and the new call goes on to cancelCurrentRequest(), a
\* new AbortController and fetch.
RetryResume(i) ==
  /\ calls[i].pc = "delay"
  /\ calls' = [calls EXCEPT ![i] =
                 ApiCall("fetching", calls[i].retries - 1, calls[i].attempts + 1,
                         "live", calls[i].cancelled)]
  /\ currentRequest' = i
  /\ lastCall' = Call("sendMessage", <<>>, "request sent", calls[i].attempts + 1)
  /\ ApiFrame

\* The 120 second timer of an attempt fires: it aborts the request that is
\* current then.
TimerFires(i) ==
  /\ calls[i].pc = "fetching"
  /\ calls' = Abort(calls, currentRequest)
  /\ UNCHANGED currentRequest
  /\ lastCall' = Call("timer", <<>>, "fired", calls[i].attempts)
  /\ ApiFrame

\* cancelCurrentRequest(); every call in flight or waiting to retry is
\* marked as cancelled by the caller.
CancelCurrentRequest ==
  /\ calls' = [j \in DOMAIN calls |->
                 [Abort(calls, currentRequest)[j] EXCEPT !.cancelled = TRUE]]
  /\ currentRequest' = NoRequest
  /\ lastCall' = Call("cancelCurrentRequest", <<>>,
                      IF currentRequest = NoRequest THEN "nothing held"
                                                    ELSE "aborted", 0)
  /\ ApiFrame

----------------------------------------------------------------------------
(* Specifications *)

Init ==
  /\ indexedFiles = EmptyMap
  /\ codebaseDir = FALSE
  /\ mirror = EmptyMap
  /\ manifest = NoManifest
  /\ lastCall = Call("new", <<>>, "done", 0)
  /\ report = NoReport
  /\ repairLog = NoRepair
  /\ input = NoInput
  /\ watcher = NoWatcher
  /\ isWatching = FALSE
  /\ subscriptions = <<>>
  /\ startsPending = 0
  /\ stopped = FALSE
  /\ search = NoSearch
  /\ dropped = {}
  /\ scans = <<>>
  /\ tasks = <<>>
  /\ outsideFiles = {}
  /\ currentRequest = NoRequest
  /\ calls = <<>>

\* The project trees a scan may find: every file in any state, the ignored
\* b.png there or not.
Snapshots ==
  {s \in [ProjectPaths -> FileStates] : s[PathPng] \in {Absent, Revision(1)}}

\* The project trees of text files only, b.png among them.
TextSnapshots ==
  {s \in [ProjectPaths -> {Absent} \cup Revisions] : s[PathPng] = Revision(1)}

UpsertPaths == {PathA, PathSrcA, PathUp}
IndexedPaths == {PathA, PathSrcA}

Scan ==
  \E pattern \in Patterns, s \in Snapshots :
    IndexProject(pattern, s, s) /\ UNCHANGED <<input, watcherVars, otherVars>>
ScanAll ==
  \E s \in TextSnapshots :
    IndexProject("**/*", s, s) /\ UNCHANGED <<input, watcherVars, otherVars>>
Upsert ==
  \E p \in UpsertPaths, f \in FileStates :
    AddOrUpdateFile(p, f, f) /\ UNCHANGED <<input, watcherVars, otherVars>>
UpsertText ==
  \E p \in IndexedPaths, f \in Revisions :
    AddOrUpdateFile(p, f, f) /\ UNCHANGED <<input, watcherVars, otherVars>>
Remove ==
  \E p \in IndexedPaths :
    RemoveFile(p) /\ UNCHANGED <<input, watcherVars, otherVars>>
WatchAdd ==
  \E p \in IndexedPaths, f \in FileStates :
    HandleFileAdd(p, f, f, f) /\ UNCHANGED <<input, watcherVars, otherVars>>
WatchChange ==
  \E p \in IndexedPaths, f \in FileStates :
    HandleFileChange(p, f, f) /\ UNCHANGED <<input, watcherVars, otherVars>>
WatchUnlink ==
  \E p \in IndexedPaths :
    HandleFileDelete(p) /\ UNCHANGED <<input, watcherVars, otherVars>>
DeleteMirror ==
  \E k \in IndexedPaths :
    ExternalDeleteMirror(k) /\ UNCHANGED <<input, watcherVars, otherVars>>
OtherScan ==
  \E s \in TextSnapshots :
    OtherProcessScan("**/*", s, s) /\ UNCHANGED <<input, watcherVars, otherVars>>

\* The operations alone, each run to completion, and restarts.
NextOps ==
  \/ Scan
  \/ Upsert
  \/ Remove
  \/ WatchAdd
  \/ WatchChange
  \/ WatchUnlink
  \/ Restart

SpecOps == Init /\ [][NextOps]_vars

\* The operations, the changes made to the persisted state from outside,
\* and verification and repair.
Next ==
  \/ ScanAll
  \/ UpsertText
  \/ Remove
  \/ Restart
  \/ DeleteMirror
  \/ ExternalRemoveCodebaseDir
  \/ OtherScan
  \/ VerifyIndex
  \/ RepairIndex

Spec == Init /\ [][Next]_vars

\* The project trees with files of every size class, b.png among them.
SizeSnapshots ==
  {s \in [ProjectPaths -> SizeStates] : s[PathPng] = Revision(1)}

SizePaths == {PathA, PathPng}

ScanSizes ==
  \E s \in SizeSnapshots :
    /\ IndexProject("**/*", s, s)
    /\ input' = Reads(s, s, <<>>, "none")
    /\ UNCHANGED <<watcherVars, otherVars>>

UpsertSizes ==
  \E p \in SizePaths, f \in SizeStates :
    /\ AddOrUpdateFile(p, f, f)
    /\ input' = Reads(OneFile(p, f), OneFile(p, f), <<>>, "none")
    /\ UNCHANGED <<watcherVars, otherVars>>

WatchAddSizes ==
  \E p \in SizePaths, f \in SizeStates :
    /\ HandleFileAdd(p, f, f, f)
    /\ input' = Reads(OneFile(p, f), OneFile(p, f), <<>>, "none")
    /\ UNCHANGED <<watcherVars, otherVars>>

WatchChangeSizes ==
  \E p \in SizePaths, f \in SizeStates :
    /\ HandleFileChange(p, f, f)
    /\ input' = Reads(OneFile(p, f), OneFile(p, f), <<>>, "none")
    /\ UNCHANGED <<watcherVars, otherVars>>

\* Scans and upserts of files of every size class, with what each call
\* read kept in input.
NextSizes ==
  \/ ScanSizes
  \/ UpsertSizes
  \/ WatchAddSizes
  \/ WatchChangeSizes

SpecSizes == Init /\ [][NextSizes]_vars

\* The project trees of the scans that meet I/O errors.
FaultSnapshots ==
  {s \in [ProjectPaths -> {Absent, Revision(1), BinaryFile}] : s[PathPng] = Revision(1)}

\* What a failed write of the manifest leaves: the '{}' written by
\* clearPersistedFiles, or a truncated file.
ManifestsLeft == {saveIndex(EmptyMap), UnreadableManifest}

ScanFaulty ==
  \E s \in FaultSnapshots, faults \in [IndexedPaths -> FileFaults] :
    /\ IndexProjectFaulty("**/*", s, s, faults, "none", manifest)
    /\ input' = Reads(s, s, faults, "none")
    /\ UNCHANGED <<watcherVars, otherVars>>

ScanManifestFails ==
  \E s \in FaultSnapshots, faults \in [IndexedPaths -> FileFaults],
     left \in ManifestsLeft :
    /\ IndexProjectFaulty("**/*", s, s, faults, "manifest", left)
    /\ input' = Reads(s, s, faults, "manifest")
    /\ UNCHANGED <<watcherVars, otherVars>>

ScanAborts ==
  \E s \in FaultSnapshots, scanFault \in {"mkdir", "enumeration"} :
    /\ IndexProjectFaulty("**/*", s, s, <<>>, scanFault, manifest)
    /\ input' = Reads(s, s, <<>>, scanFault)
    /\ UNCHANGED <<watcherVars, otherVars>>

\* Scans that meet I/O errors, and restarts.
NextFaults ==
  \/ ScanFaulty
  \/ ScanManifestFails
  \/ ScanAborts
  \/ Restart

SpecFaults == Init /\ [][NextFaults]_vars

\* The project trees of text files in any revision or encoding.
RaceStates == {Absent, Latin1File} \cup Revisions

RaceSnapshots ==
  {s \in [ProjectPaths -> RaceStates] : s[PathPng] = Revision(1)}

\* A scan during which the project files change: stat and readFile of one
\* file may find different revisions.
ScanRacing ==
  \E s \in RaceSnapshots, r \in RaceSnapshots :
    /\ IndexProject("**/*", s, r)
    /\ input' = Reads(s, r, <<>>, "none")
    /\ UNCHANGED <<watcherVars, otherVars>>

UpsertRacing ==
  \E p \in IndexedPaths, f \in RaceStates, g \in RaceStates :
    /\ AddOrUpdateFile(p, f, g)
    /\ input' = Reads(OneFile(p, f), OneFile(p, g), <<>>, "none")
    /\ UNCHANGED <<watcherVars, otherVars>>

\* Scans and upserts of files that are being written to.
NextRace ==
  \/ ScanRacing
  \/ UpsertRacing

SpecRace == Init /\ [][NextRace]_vars

\* The files a scan may find, in the project and in the directory above
\* it, one of them with a control character in its name.
FoundPaths == {PathA, PathCtl, PathUp}

PathSnapshots == [FoundPaths -> {Absent, Revision(1)}]

\* /index <pattern> with any pattern: the filter throws when the glob
\* returned a path outside the project root.
ScanAnyPattern ==
  \E pattern \in {"**/*", "../*"}, s \in PathSnapshots :
    LET thrown == \E p \in FoundPaths :
                    s[p].exists /\ GlobMatches(pattern, p) /\ IgnoreThrows(p)
    IN  /\ IndexProjectFaulty(pattern, s, s, <<>>,
                               IF thrown THEN "filter" ELSE "none", manifest)
        /\ input' = Reads(s, s, <<>>, IF thrown THEN "filter" ELSE "none")
        /\ UNCHANGED <<watcherVars, otherVars>>

\* What is at a path given to addOrUpdateFile: a path that ends in ".."
\* names a directory, which stat finds and readFile cannot read.
Directory == [exists |-> TRUE, size |-> 4096, mtime |-> 1, content |-> NulContent]

ArbitraryPaths == {PathA, PathUp, PathCtl, PathRoot, PathAbs}

UpsertAnyPath ==
  \E p \in ArbitraryPaths, f \in {Absent, Revision(1)} :
    /\ IF p[Len(p)] = ".."
         THEN AddOrUpdateFile(p, Directory, Absent)
         ELSE AddOrUpdateFile(p, f, f)
    /\ input' = NoInput
    /\ UNCHANGED <<watcherVars, otherVars>>

\* codebase-index.json and a content file are written from outside the
\* program, for any key.
PlantManifest ==
  \E k \in ArbitraryPaths :
    LET file == MakeCodeFile(k, Revision(1), TextContent(1))
    IN  /\ manifest' = saveIndex(MapSet(EmptyMap, k, file))
        /\ mirror' = MapSet(mirror, k, file.content)
        /\ codebaseDir' = TRUE
        /\ UNCHANGED indexedFiles
        /\ lastCall' = Call("external write", k, "done", 0)
        /\ report' = NoReport
        /\ repairLog' = NoRepair
        /\ UNCHANGED <<input, watcherVars, otherVars>>

PathEscape == <<"..", "..", "notes">>

\* notes.grok in the project root, written by the user.
ExternalCreate ==
  /\ outsideFiles' = outsideFiles \cup {<<"notes.grok">>}
  /\ UNCHANGED persistent
  /\ lastCall' = Call("external write", <<"notes.grok">>, "done", 0)
  /\ report' = NoReport
  /\ repairLog' = NoRepair
  /\ UNCHANGED <<input, watcherVars, search, dropped, scans, tasks, apiVars>>

RemoveAnyPath ==
  \E p \in ArbitraryPaths \cup {PathEscape} :
    /\ RemoveFileAnywhere(p)
    /\ UNCHANGED <<input, watcherVars, search, dropped, scans, tasks, apiVars>>

\* Scans with any pattern, upserts and removes of any path, and restarts
\* over any manifest.
NextPaths ==
  \/ ScanAnyPattern
  \/ UpsertAnyPath
  \/ PlantManifest
  \/ Restart
  \/ ExternalCreate
  \/ RemoveAnyPath

SpecPaths == Init /\ [][NextPaths]_vars

\* A source file with the given characters.
SourceFile(chars) ==
  [exists |-> TRUE, size |-> Len(chars), mtime |-> 1,
   content |-> [text |-> chars, nul |-> FALSE, bytes |-> Len(chars)]]

\* "x", an empty line, "  Foo()"
SourceFoo ==
  SourceFile(<<"x", "\n", "\n", " ", " ", "F", "o", "o", "(", ")">>)

\* "foobar foo", "a.b axb"
SourceDots ==
  SourceFile(<<"f", "o", "o", "b", "a", "r", " ", "f", "o", "o", "\n",
               "a", ".", "b", " ", "a", "x", "b">>)

PathNotes == <<"notes.txt">>

SearchPaths == {PathA, PathNotes}

SearchSnapshots == [SearchPaths -> {Absent, SourceFoo, SourceDots}]

QueryFoo    == <<"f", "o", "o">>
QueryNested == <<"(", "a", "+", ")", "+">>

\* "foo", "a.b", "", "(a+)+", "a**", "+a"
Queries ==
  {QueryFoo, <<"a", ".", "b">>, <<>>, QueryNested, <<"a", "*", "*">>, <<"+", "a">>}

\* The options of a search: every mode, case sensitivity and cap without
\* filters, and every filter on its own.
PlainOptions ==
  [regex : BOOLEAN, caseSensitive : BOOLEAN, wholeWord : {FALSE},
   filePattern : {""}, language : {""}, maxResults : {{}, {0}, {1}}]

FilterOptions ==
  {[regex |-> FALSE, caseSensitive |-> FALSE, wholeWord |-> w,
    filePattern |-> f, language |-> l, maxResults |-> {}] :
     w \in BOOLEAN, f \in {"", "notes.txt"}, l \in {"", "typescript"}}

SearchOptions ==
  PlainOptions \cup
  {o \in FilterOptions :
     Cardinality({o.wholeWord} \cap {TRUE}) + Cardinality({o.filePattern} \ {""})
       + Cardinality({o.language} \ {""}) = 1}

ScanSources ==
  \E s \in SearchSnapshots :
    /\ IndexProject("**/*", s, s)
    /\ search' = NoSearch
    /\ UNCHANGED <<input, watcherVars, dropped, scans, tasks, outsideFiles, apiVars>>

Search ==
  \E query \in Queries, options \in SearchOptions,
     order \in KeyOrders(DOMAIN indexedFiles) :
    SearchCode(query, options, order)

\* Searches of an index of source files.
NextSearch ==
  \/ ScanSources
  \/ Search

SpecSearch == Init /\ [][NextSearch]_vars

Ready == \E i \in DOMAIN subscriptions : OnReady(i)
Error == \E i \in DOMAIN subscriptions : OnError(i)

\* The watcher alone: calls of start() and stop() in any order, and the
\* callbacks of the subscriptions.
NextWatcher ==
  \/ StartCall
  \/ StartResume
  \/ Ready
  \/ Error
  \/ Stop

SpecWatcher == Init /\ [][NextWatcher]_vars

EventPaths == {PathA, PathSrcA}

\* What a failed write of the manifest by a handler leaves: the manifest as
\* it was, or a truncated file.
EventManifestsLeft == {manifest, UnreadableManifest}

\* The indexing of the setup, before the watcher is started.
IndexBeforeWatch ==
  \E s \in {t \in TextSnapshots : t[PathA] = Revision(1) /\ t[PathSrcA] = Absent} :
    /\ watcher = NoWatcher
    /\ subscriptions = <<>>
    /\ IndexProject("**/*", s, s)
    /\ UNCHANGED <<input, watcherVars, otherVars>>

\* /watch, given when no watcher is open and none is being started: the
\* command refuses to start one while the index is empty.
WatchCommand ==
  /\ ~isActive
  /\ DOMAIN indexedFiles # {}
  /\ watcher = NoWatcher
  /\ startsPending = 0
  /\ StartCall

\* /unwatch: stop() is called only on an active watcher.
UnwatchCommand == isActive /\ Stop

EventAdd ==
  \E i \in DOMAIN subscriptions, p \in EventPaths,
     fault \in UpsertFaults, left \in EventManifestsLeft :
    /\ fault # "manifest" => left = manifest
    /\ OnAdd(i, p, Revision(1), fault, left)

EventChange ==
  \E i \in DOMAIN subscriptions, p \in EventPaths,
     fault \in UpsertFaults, left \in EventManifestsLeft :
    /\ fault # "manifest" => left = manifest
    /\ OnChange(i, p, Revision(1), fault, left)

EventUnlink ==
  \E i \in DOMAIN subscriptions, p \in EventPaths,
     fault \in RemoveFaults, left \in EventManifestsLeft :
    /\ fault # "manifest" => left = manifest
    /\ OnUnlink(i, p, fault, left)

\* One watch session after another, and the events the open subscription
\* delivers, any of which may meet an I/O error.
NextEvents ==
  \/ IndexBeforeWatch
  \/ WatchCommand
  \/ StartResume
  \/ Ready
  \/ UnwatchCommand
  \/ EventAdd
  \/ EventChange
  \/ EventUnlink

SpecEvents == Init /\ [][NextEvents]_vars

\* What the glob of a scan finds: a.ts, with or without src/a.ts.
FoundSets == {{PathA}, {PathA, PathSrcA}}

Clear == \E i \in DOMAIN scans, found \in FoundSets : ScanClear(i, found)
File == \E i \in DOMAIN scans, p \in IndexedPaths : ScanFile(i, p, Revision(1))
SaveOpen == \E i \in DOMAIN scans : ScanSaveOpen(i)
SaveWrite == \E i \in DOMAIN scans : ScanSaveWrite(i)

\* Scans that run from one await to the next, the commands given while
\* they run, and crashes.
NextScans ==
  \/ ScanCall
  \/ Clear
  \/ File
  \/ SaveOpen
  \/ SaveWrite
  \/ VerifyIndex
  \/ CrashAndRestart

SpecScans == Init /\ [][NextScans]_vars

Index ==
  \E pattern \in Patterns, s \in TextSnapshots : IndexCommand(pattern, s, s)

\* /index and /unwatch commands, and the watchers the /index commands start.
NextIndexCommand ==
  \/ Index
  \/ StartResume
  \/ Ready
  \/ UnwatchCommand

SpecIndexCommand == Init /\ [][NextIndexCommand]_vars

\* What an attempt may fail with: a connection that times out, is reset or
\* is refused, and an error response, whose body may hold any text.
Failures ==
  {NetworkError(code) : code \in {"ETIMEDOUT", "ECONNRESET", "ECONNREFUSED"}}
    \cup {HttpError("401", <<"unauthorized">>),
          HttpError("502", <<"upstream", "error:", "ECONNRESET">>)}

Fails == \E i \in DOMAIN calls, error \in Failures : AttemptFails(i, error)
Aborted == \E i \in DOMAIN calls : AttemptAborted(i)
Succeeds == \E i \in DOMAIN calls : AttemptSucceeds(i)
Retry == \E i \in DOMAIN calls : RetryResume(i)
Timer == \E i \in DOMAIN calls : TimerFires(i)

\* Requests to the API, their failures and retries, and cancellations.
NextApi ==
  \/ SendMessage
  \/ Fails
  \/ Aborted
  \/ Succeeds
  \/ Retry
  \/ Timer
  \/ CancelCurrentRequest

SpecApi == Init /\ [][NextApi]_vars

Create ==
  \E p \in UpsertPaths, before \in {Absent} \cup Revisions, written \in Revisions :
    CreateFile(p, before, written)

\* Files created by the code generator, and removes.
NextGenerate ==
  \/ Create
  \/ Remove

SpecGenerate == Init /\ [][NextGenerate]_vars

UpsertStarts == \E p \in IndexedPaths : UpsertCall(p)
UpsertReads == \E i \in DOMAIN tasks : UpsertRead(i, Revision(1))
UpsertSaves == \E i \in DOMAIN tasks : UpsertSaved(i)
RemoveStarts == \E p \in IndexedPaths : RemoveCall(p)
RemoveUnlinks == \E i \in DOMAIN tasks : RemoveUnlinked(i)
TaskWrites == \E i \in DOMAIN tasks : TaskWrite(i)
OneScanCall == scans = <<>> /\ ScanCall

\* Upserts and removes, by the watcher's handlers or direct, and one full
\* scan at a time, all running from one await to the next.
NextTasks ==
  \/ UpsertStarts
  \/ UpsertReads
  \/ UpsertSaves
  \/ RemoveStarts
  \/ RemoveUnlinks
  \/ TaskWrites
  \/ OneScanCall
  \/ Clear
  \/ File
  \/ SaveOpen
  \/ SaveWrite

SpecTasks == Init /\ [][NextTasks]_vars

----------------------------------------------------------------------------
(* Properties *)

\* The in-memory record of key k and its content file agree.
Mirrored(k) == k \in DOMAIN mirror /\ mirror[k] = indexedFiles[k].content

IndexCalls ==
  {"indexProject", "addOrUpdateFile", "removeFile",
   "handleFileAdd", "handleFileChange", "handleFileDelete"}

C2_ScanLeavesNoStaleContent ==
  lastCall.op = "indexProject" => DOMAIN mirror \subseteq DOMAIN indexedFiles

\* C3: verifyIndex returns valid = true exactly when all four divergence
\* sets are empty.
C3_ValidIffNoDivergence ==
  lastCall.op = "verifyIndex" => (report.valid <=> ~Divergent)

\* C4: verifyIndex reports as orphaned exactly the content files whose key
\* has no in-memory entry, those in subdirectories included.
C4_OrphansReported ==
  lastCall.op = "verifyIndex" => report.orphanedFiles = Orphaned

\* C5: verifyIndex lists every in-memory key whose content file is gone
\* under missingFromDisk, with valid = false; repairIndex re-creates the
\* content file from the in-memory record and its final verification is
\* valid.
C5_MissingContentReportedAndRepaired ==
  /\ lastCall.op = "verifyIndex" =>
       /\ MissingFromDisk \subseteq report.missingFromDisk
       /\ MissingFromDisk # {} => ~report.valid
  /\ (lastCall.op = "repairIndex" /\ repairLog.missingBefore # {}) =>
       /\ \A k \in repairLog.missingBefore : Mirrored(k)
       /\ repairLog.finalValid

\* C6: when repairIndex returns after finding issues, the manifest's keys
\* and per-key language, size and lastModified are those of the in-memory
\* map.
C6_ManifestMatchesMemoryAfterRepair ==
  (lastCall.op = "repairIndex" /\ repairLog.found) =>
    /\ manifest.state = "ok"
    /\ DOMAIN manifest.entries = DOMAIN indexedFiles
    /\ \A k \in DOMAIN indexedFiles :
         /\ manifest.entries[k].language = indexedFiles[k].language
         /\ manifest.entries[k].size = indexedFiles[k].size
         /\ manifest.entries[k].lastModified = indexedFiles[k].lastModified

C6_Witness ==
  /\ lastCall.op = "repairIndex"
  /\ repairLog.found
  /\ repairLog.changed
  /\ DOMAIN indexedFiles = {PathA, PathSrcA}

\* C7: two calls of repairIndex in succession, from a divergent state, end
\* in a state that verifies as valid, and the second call changes nothing.
C7_RepairTwice ==
  (repairLog.streak = 2 /\ repairLog.divergentBefore) =>
    repairLog.finalValid /\ ~repairLog.changed

\* C8: verifyIndex changes neither the in-memory map, nor the manifest, nor
\* the content files.
C8_VerifyMutatesNothing ==
  [][lastCall'.op = "verifyIndex" => UNCHANGED persistent]_vars

C8_Witness ==
  /\ lastCall.op = "verifyIndex"
  /\ report.made
  /\ ~report.valid
  /\ report.orphanedFiles # {}
  /\ report.missingFromDisk # {}

RemoveCalls == {"removeFile", "handleFileDelete"}

\* C9: after a remove of path p (removeFile or the watcher's unlink
\* handler), p is in neither the in-memory map, nor the content files, nor
\* the manifest, and every other in-memory record is as it was.
C9_RemovedEverywhere ==
  [][(lastCall'.op \in RemoveCalls /\ lastCall'.outcome = "done") =>
       LET p == lastCall'.path
       IN  /\ p \notin DOMAIN indexedFiles'
           /\ p \notin DOMAIN mirror'
           /\ p \notin ManifestKeys(manifest')
           /\ DOMAIN indexedFiles' = DOMAIN indexedFiles \ {p}
           /\ \A k \in DOMAIN indexedFiles' : indexedFiles'[k] = indexedFiles[k]]_vars

C9_Witness ==
  /\ lastCall.op = "handleFileDelete"
  /\ lastCall.outcome = "done"
  /\ lastCall.path = PathSrcA
  /\ DOMAIN indexedFiles = {PathA}
  /\ DOMAIN mirror = {PathA}

Rejections == {"invalid path", "unsafe path", "too large", "binary"}

\* C10: an addOrUpdateFile or change event that fails validation (unsafe
\* path, file too large, NUL byte in the content) leaves the in-memory map,
\* the content files and the manifest as they were.
C10_RejectedUpsertChangesNothing ==
  [][(/\ lastCall'.op \in {"addOrUpdateFile", "handleFileChange"}
      /\ lastCall'.outcome \in Rejections) => UNCHANGED persistent]_vars

C10_Witness ==
  /\ lastCall.op = "handleFileChange"
  /\ lastCall.outcome = "binary"
  /\ lastCall.path \in DOMAIN indexedFiles
  /\ Mirrored(lastCall.path)

UpsertCalls == {"addOrUpdateFile", "handleFileAdd", "handleFileChange"}

\* C11: the add/change path and the scanner accept the same files: for a
\* file of any size, with or without a NUL byte, an upsert of a.ts indexes
\* it exactly when a full scan finding the same file would index it.
C11_SameAcceptance ==
  (lastCall.op \in UpsertCalls /\ lastCall.path = PathA) =>
    (lastCall.outcome = "indexed"
       <=> PathA \in ScanAccepted("**/*", input.atStat, input.atRead))

\* C12: no path that the ignore policy excludes is a key of the in-memory
\* map, after any sequence of scans, watcher add/change events and direct
\* addOrUpdateFile calls.
C12_NoIgnoredKey == \A k \in DOMAIN indexedFiles : ~ScannerIgnores(k)

\* C13: every in-memory record has 0 < size <= MAX_FILE_SIZE, after any
\* sequence of scans, watcher add/change events and addOrUpdateFile calls.
C13_SizeWithinLimits ==
  \A k \in DOMAIN indexedFiles :
    indexedFiles[k].size > 0 /\ indexedFiles[k].size <= MAX_FILE_SIZE

C16_CountIsStoreSize ==
  (lastCall.op = "indexProject" /\ lastCall.outcome = "done") =>
    lastCall.count = Cardinality(DOMAIN indexedFiles)

\* A file the scan should index: there, not ignored, of valid size, without
\* a NUL byte, and met by no I/O error.
Indexable(p) ==
  /\ input.atStat[p].exists
  /\ ~ScannerIgnores(p)
  /\ input.atStat[p].size > 0
  /\ input.atStat[p].size <= MAX_FILE_SIZE
  /\ ~input.atRead[p].content.nul
  /\ FaultAt(input.faults, p) = "none"

\* After a scan that returned, every indexable file is in the map, has its
\* content file and is in the manifest.
ScanCompleted ==
  /\ manifest.state = "ok"
  /\ \A p \in DOMAIN input.atStat :
       Indexable(p) =>
         /\ p \in DOMAIN indexedFiles
         /\ Mirrored(p)
         /\ p \in ManifestKeys(manifest)

C18_StoppedStaysInactive ==
  stopped => (~isActive /\ OpenSubscriptions = {})

\* C19: for every sequence of start() and stop() calls, at most one
\* subscription is open at any time, and an open subscription is the one
\* the watcher holds.
C19_AtMostOneSubscription ==
  /\ Cardinality(OpenSubscriptions) <= 1
  /\ OpenSubscriptions \subseteq {watcher}

\* C20: after a subscription has emitted an error, isActive() is false.
C20_ErrorStopsWatcher ==
  lastCall.op = "error event" => ~isActive

\* C25: right after initialize() has loaded the persisted state, the keys
\* of the in-memory map are the keys of the manifest, also when the content
\* file of a manifest key is missing.
C25_LoadedKeysAreManifestKeys ==
  lastCall.op = "initialize" => DOMAIN indexedFiles = ManifestKeys(manifest)

C24_SizeIsContentLength ==
  \A k \in DOMAIN indexedFiles :
    k \in DOMAIN mirror => indexedFiles[k].size = mirror[k].bytes

\* C30: no key of the in-memory map has a ".." segment, a leading path
\* separator or a control character, after any sequence of scans with any
\* pattern, upserts of any path and initialize() over any manifest.
C30_KeysAreSafe ==
  \A k \in DOMAIN indexedFiles :
    /\ \A i \in 1..Len(k) : k[i] # ".." /\ k[i] \notin ControlSegments
    /\ k[1] # ""

SearchReturned == lastCall.op = "searchCode" /\ search.outcome = "returned"

\* C27: searchCode returns at most maxResults results, for every content
\* of the in-memory map and every cap, 0 included.
C27_CapRespected ==
  SearchReturned => Len(search.results) <= maxResultsOf(search.options)

\* The characters sub are an occurrence of the query: in literal mode the
\* query itself, compared with or without case; in regex mode a match of
\* the whole of sub.
Occurrence(sub, query, options) ==
  IF options.regex
    THEN MatchEnd(sub, RegExpAtoms(query), 0, ~options.caseSensitive) = Len(sub)
    ELSE /\ Len(sub) = Len(query)
         /\ \A i \in 1..Len(query) :
              IF options.caseSensitive
                THEN sub[i] = query[i]
                ELSE toLowerCase(sub[i]) = toLowerCase(query[i])

\* C28: every result of searchCode is a file that passes the path and
\* language filters and has a match; every match has the 1-based number
\* of a line of the file, and the characters of that line from startIndex
\* to endIndex are an occurrence of the query under the case sensitivity
\* asked for.  A case-insensitive literal search for "foo" in a file with
\* "Foo()" on line 3 only gives that file exactly one match, on line 3.
C28_ResultsAreMatches ==
  SearchReturned =>
    \A n \in 1..Len(search.results) :
      LET r     == search.results[n]
          lines == splitLines(indexedFiles[r.file].content.text, <<>>)
      IN  /\ r.file \in DOMAIN indexedFiles
          /\ search.options.filePattern # "" =>
                PathIncludes(r.file, search.options.filePattern)
          /\ search.options.language # "" =>
                indexedFiles[r.file].language = search.options.language
          /\ Len(r.matches) >= 1
          /\ \A m \in 1..Len(r.matches) :
               LET match == r.matches[m]
               IN  /\ match.line \in 1..Len(lines)
                   /\ 0 <= match.startIndex
                   /\ match.startIndex <= match.endIndex
                   /\ match.endIndex <= Len(lines[match.line])
                   /\ Occurrence(SubSeq(lines[match.line], match.startIndex + 1,
                                         match.endIndex),
                                  search.query, search.options)
          /\ (/\ search.query = QueryFoo
              /\ ~search.options.regex
              /\ ~search.options.caseSensitive
              /\ indexedFiles[r.file].content = SourceFoo.content) =>
                /\ Len(r.matches) = 1
                /\ r.matches[1].line = 3
                /\ r.matches[1].startIndex = 2
                /\ r.matches[1].endIndex = 5

C28_Witness ==
  /\ SearchReturned
  /\ search.query = QueryFoo
  /\ ~search.options.regex
  /\ ~search.options.caseSensitive
  /\ Len(search.results) = 2
  /\ \E n \in 1..2 :
       /\ indexedFiles[search.results[n].file].content = SourceFoo.content
       /\ search.results[n].matches[1].line = 3

\* C29: a regex search whose pattern isRegexSafe rejects, "(a+)+" among
\* them, fails before the pattern is compiled, with no results and the
\* in-memory map and the disk unchanged; a literal search is never
\* rejected.
C29_UnsafeRegexRejected ==
  [][lastCall'.op = "searchCode" =>
       /\ (search'.options.regex /\ ~isRegexSafe(search'.query)) =>
            /\ search'.outcome = "unsafe pattern"
            /\ search'.results = <<>>
            /\ UNCHANGED persistent
       /\ (search'.options.regex /\ search'.query = QueryNested) =>
            search'.outcome = "unsafe pattern"
       /\ ~search'.options.regex => search'.outcome # "unsafe pattern"]_vars

C29_Witness ==
  /\ lastCall.op = "searchCode"
  /\ search.query = QueryNested
  /\ search.options.regex
  /\ search.outcome = "unsafe pattern"
  /\ DOMAIN indexedFiles = SearchPaths

HandlerCalls == {"handleFileAdd", "handleFileChange", "handleFileDelete"}

InFlight == {i \in DOMAIN scans : scans[i].pc # "clear"}

\* C22: at most one full scan is in progress at a time: no indexProject
\* call clears the index after another has cleared it and before that one
\* has written its manifest.
C22_OneScanAtATime == Cardinality(InFlight) <= 1

\* C23: a reader of the manifest, verifyIndex or the loadPersistedIndex of
\* a start after a crash, never finds the document empty or partly
\* written while saveIndex writes it.
C23_ManifestReadWhole ==
  lastCall.op \in {"verifyIndex", "initialize"} => manifest.state # "unreadable"

\* C31: on a first run, with no manifest, no content files and an empty
\* in-memory map, verifyIndex reports valid with no issues.
C31_FirstRunVerifiesValid ==
  (/\ lastCall.op = "verifyIndex"
   /\ indexedFiles = EmptyMap
   /\ mirror = EmptyMap
   /\ manifest.state = "absent") =>
    report.valid /\ report.issues = {}

\* C32: repairIndex run with an empty in-memory map and a manifest that has
\* keys takes the manifest as the truth: it leaves the manifest as it is
\* and deletes no content file of a manifest key.
C32_ColdStartRepairKeepsManifest ==
  [][(/\ lastCall'.op = "repairIndex"
      /\ indexedFiles = EmptyMap
      /\ ManifestKeys(manifest) # {}) =>
        /\ manifest' = manifest
        /\ ManifestKeys(manifest) \cap DOMAIN mirror \subseteq DOMAIN mirror']_vars

\* C33: after every /index command that completes, the watcher has been
\* started: it is active, or start() was called and is creating it or has
\* created it, whatever the number of files indexed.
C33_IndexStartsWatching ==
  (lastCall.op = "/index" /\ lastCall.outcome = "done") =>
    isActive \/ startsPending > 0 \/ watcher # NoWatcher

NetworkTimeouts == {NetworkError("ETIMEDOUT").message, NetworkError("ECONNRESET").message}

\* C34: an attempt of sendMessage that fails with a network timeout
\* (ETIMEDOUT or ECONNRESET) is retried at most 3 times, so that a request
\* whose every attempt times out fails after exactly 4 attempts; an
\* attempt that fails for any other reason is not retried.
C34_RetriesOnlyTimeouts ==
  [][lastCall'.op = "attempt failed" =>
       /\ lastCall'.count <= DefaultRetries + 1
       /\ lastCall'.path \in NetworkTimeouts =>
            (lastCall'.outcome = "retrying" <=> lastCall'.count <= DefaultRetries)
       /\ lastCall'.path \notin NetworkTimeouts =>
            lastCall'.outcome # "retrying"]_vars

\* C40: once cancelCurrentRequest() was called, no request that was in
\* flight or waiting to be retried then is in flight with a signal that
\* was not aborted.
C40_CancelStopsRequest ==
  \A i \in DOMAIN calls :
    calls[i].cancelled => ~(calls[i].pc = "fetching" /\ calls[i].signal = "live")

\* C37: a file whose content write fails while indexProject handles it is
\* skipped as a whole: the in-memory map holds no record for it afterwards,
\* and no record of the map is without its content file.
C37_FailedFileHasNoRecord ==
  (lastCall.op = "indexProject" /\ lastCall.outcome = "done") =>
    /\ \A p \in DOMAIN input.faults :
         input.faults[p] = "write" => p \notin DOMAIN indexedFiles
    /\ DOMAIN indexedFiles \subseteq DOMAIN mirror

\* C38: removeFile unlinks no file outside the mirror directory, whatever
\* its argument, and a call with a traversal path leaves the in-memory map,
\* the content files and the manifest as they were.
C38_RemoveStaysInMirror ==
  [][lastCall'.op = "removeFile" =>
       /\ outsideFiles' = outsideFiles
       /\ ~validateFilePath(lastCall'.path) => UNCHANGED persistent]_vars

\* C39: createFile never overwrites: when a file exists at the target
\* path, the call fails with 'File already exists', the file is as it was
\* and the in-memory map is not updated.
C39_CreateNeverOverwrites ==
  [][(lastCall'.op = "createFile" /\ input'.atStat[lastCall'.path].exists) =>
       /\ lastCall'.outcome = "File already exists"
       /\ input'.atRead[lastCall'.path] = input'.atStat[lastCall'.path]
       /\ UNCHANGED indexedFiles]_vars

\* C35: for every interleaving of upserts, removes and a full scan at
\* their awaits, once all of them have returned the keys of the manifest
\* are the keys of the in-memory map.
C35_ManifestMatchesWhenIdle ==
  (tasks = <<>> /\ scans = <<>>) => ManifestKeys(manifest) = DOMAIN indexedFiles

\* C36: a removeFile of p that is called and returns while an earlier
\* addOrUpdateFile of p waits for its stat and readFile wins: once both
\* have returned, p is in neither the in-memory map, the content files nor
\* the manifest.
C36_RemoveWinsOverEarlierUpsert ==
  (/\ lastCall.op = "addOrUpdateFile"
   /\ lastCall.outcome = "done after a remove"
   /\ tasks = <<>>) =>
    /\ lastCall.path \notin DOMAIN indexedFiles
    /\ lastCall.path \notin DOMAIN mirror
    /\ lastCall.path \notin ManifestKeys(manifest)

====
